---- MODULE Spec2Model ----
(***************************************************************************)
(* Model of two components of SU2:                                         *)
(*                                                                         *)
(*   - SU2_PY/FSI_tools/FSI_config.py: class FSIConfig, the reader of the  *)
(*     FSI configuration file (specification SpecConfig).                  *)
(*   - TestCases/py_wrapper/flatPlate_rigidMotion/                         *)
(*     launch_flatPlate_rigidMotion.py: main(), the script that drives     *)
(*     pysu2.CSinglezoneDriver through the time loop (specifications Spec  *)
(*     and SpecLive for one process, SpecMPI for several processes).       *)
(*                                                                         *)
(* Text is modelled as a sequence of one-character strings, so that        *)
(* strip, split, int() and float() are computed character by character.    *)
(***************************************************************************)
EXTENDS Integers, Sequences, FiniteSets, TLC

VARIABLES
    \* ---- launch_flatPlate_rigidMotion.py ----
    world,        \* the set of processes running the script
    with_MPI,     \* options.with_MPI, the --parallel flag
    driverEnv,    \* per process: what the pysu2 driver answers to the queries
    main,         \* per process: the locals of main() and its position
    calls,        \* per process: the driver calls issued so far, in order
    stdout,       \* per process: what has been printed
    arrived,      \* the processes that have entered comm.Barrier()
    \* ---- FSI_config.py ----
    fileExists,       \* whether open(self.ConfigFileName) finds the file
    ConfigFile,       \* the lines readline() returns for ConfigFileName, each
                      \* ended by "\n" but possibly the last
    ConfigContent,    \* self._ConfigContent, an insertion-ordered dict
    cfg_pc,           \* "init", "defaults", "ready" or "error" ("idle": no object)
    cfg_error,        \* the exception that ended __init__, or "none"
    cfg_out,          \* what readConfig has printed
    written,          \* the calls made on the constructed object that may
                      \* change the dict, in order: [op, key]
    lastResult        \* result of the last call on the constructed object

mainVars == <<world, with_MPI, driverEnv, main, calls, stdout, arrived>>
cfgVars  == <<fileExists, ConfigFile, ConfigContent, cfg_pc, cfg_error, cfg_out,
              written, lastResult>>
vars     == <<mainVars, cfgVars>>

----------------------------------------------------------------------------
(***************************************************************************)
(* Bounds of the model.                                                    *)
(***************************************************************************)
MaxIter      == 2   \* GetnTimeIter() answers 0..MaxIter
MaxStartIter == 2   \* GetTime_Iter() answers 0..MaxStartIter
MaxVertex    == 2   \* GetNumberVertices() answers 0..MaxVertex
MaxDeltaT    == 1   \* GetUnsteady_TimeStep() answers 1..MaxDeltaT quarter periods
MaxIterMPI   == 1   \* the same bounds in the specification of several processes
MaxVertexMPI == 1
MaxLines     == 2   \* a file holds up to MaxLines lines
MaxWrites    == 1   \* up to MaxWrites calls change the constructed object
NProcs       == 2   \* the processes of the parallel run

----------------------------------------------------------------------------
(***************************************************************************)
(* launch_flatPlate_rigidMotion.py                                         *)
(***************************************************************************)

\* MovingMarkerID = None (the marker ids of the driver are 0, 1, ...)
NoneID == -1

\* MovingMarker = 'plate'
MovingMarker == "plate"

\* The amplitude 0.0175 of d_y, in units of 1e-4.
Amplitude == 175

MsgBegin == "------------------------------ Begin Solver -----------------------------"
MsgTypeError == "A TypeError occured in pysu2.CDriver : "
MsgSerialBuild == "ERROR : You are trying to initialize MPI with a serial build of the wrapper. Please, remove the --parallel option that is incompatible with a serial build."
MsgParallelBuild == "ERROR : You are trying to launch a computation without initializing MPI but the wrapper has been built in parallel. Please add the --parallel option in order to initialize MPI for the wrapper."

\* sin(2*pi*t) for t counted in quarter periods: 0, 1, 0, -1.
\* (Time is kept in quarter periods so that the sine is exact.)
SinQuarter(t) == CASE t % 4 = 0 -> 0
                   [] t % 4 = 1 -> 1
                   [] t % 4 = 2 -> 0
                   [] OTHER     -> -1

\* d_y = 0.0175*sin(2*pi*time), in units of 1e-4
Displacement(t) == Amplitude * SinQuarter(t)

Call(op, args) == [op |-> op, args |-> args]

\* The answers of one driver object. Those that come from the configuration
\* file and the build are the same in every process: whether the
\* construction raises TypeError, the tags with the deform-mesh option, the
\* time step (in quarter periods), the starting iteration and the iteration
\* count. Those that come from the partition of the mesh differ from rank to
\* rank: the boundary markers of the rank with their ids, and the vertex
\* counts of the marker.
Tags == {"plate", "farfield"}
NoMarkers == [t \in {} |-> 0]
PlateOnly == [t \in {"plate"} |-> 0]
MarkerMaps == { NoMarkers,
                PlateOnly,
                [t \in {"farfield"} |-> 0],
                [t \in Tags |-> IF t = "plate" THEN 1 ELSE 0] }
DriverAnswers(run, mesh) ==
    [ typeError   |-> run.typeError,
      deformTags  |-> run.deformTags,
      deltaT      |-> run.deltaT,
      timeIter0   |-> run.timeIter0,
      nTimeIter   |-> run.nTimeIter,
      markers     |-> mesh.markers,
      nVertex     |-> mesh.nVertex,
      nHalo       |-> IF mesh.nHalo <= mesh.nVertex THEN mesh.nHalo ELSE mesh.nVertex ]

\* The locals of main() before its first statement.
MainStart == [ pc |-> "mpi", comm |-> "unset", rank |-> 0,
               SU2Driver |-> "unset",
               MovingMarkerID |-> NoneID,
               nVertex_MovingMarker |-> 0,
               nVertex_MovingMarker_HALO |-> 0,
               nVertex_MovingMarker_PHYS |-> 0,
               deltaT |-> 0, TimeIter |-> 0, nTimeIter |-> 0, time |-> 0,
               iVertex |-> 0, d_y |-> 0, stopCalc |-> FALSE ]

Goto(p, label) == main' = [main EXCEPT ![p].pc = label]
Issue(p, c)    == calls' = [calls EXCEPT ![p] = Append(@, c)]
Say(p, msgs)   == stdout' = [stdout EXCEPT ![p] = @ \o msgs]

\* lines 64-71: the communicator and the rank
ImportMPI(p) ==
    /\ main[p].pc = "mpi"
    /\ main' = [main EXCEPT ![p].pc = "construct",
                            ![p].comm = IF with_MPI THEN "COMM_WORLD" ELSE "0",
                            ![p].rank = IF with_MPI THEN p ELSE 0]
    /\ UNCHANGED <<world, with_MPI, driverEnv, calls, stdout, arrived, cfgVars>>

\* lines 74-82: construction of the driver, the TypeError handler
ConstructDriverMutant(p) ==
    /\ main[p].pc = "construct"
    /\ IF driverEnv[p].typeError
       THEN /\ Say(p, <<MsgTypeError,
                        IF with_MPI THEN MsgSerialBuild ELSE MsgParallelBuild>>)
            /\ main' = [main EXCEPT ![p].pc = "markers"]
       ELSE /\ main' = [main EXCEPT ![p].pc = "markers", ![p].SU2Driver = "live"]
            /\ UNCHANGED stdout
    /\ UNCHANGED <<world, with_MPI, driverEnv, calls, arrived, cfgVars>>

ConstructDriver(p) ==
    /\ main[p].pc = "construct"
    /\ IF driverEnv[p].typeError
       THEN /\ Say(p, <<MsgTypeError,
                        IF with_MPI THEN MsgSerialBuild ELSE MsgParallelBuild>>)
            /\ Goto(p, "returned")
       ELSE /\ main' = [main EXCEPT ![p].pc = "markers", ![p].SU2Driver = "live"]
            /\ UNCHANGED stdout
    /\ UNCHANGED <<world, with_MPI, driverEnv, calls, arrived, cfgVars>>

\* lines 85-106: the id of the moving marker and its vertex counts
ResolveMarker(p) ==
    LET env   == driverEnv[p]
        found == /\ MovingMarker \in env.deformTags
                 /\ MovingMarker \in DOMAIN env.markers
        id    == IF found THEN env.markers[MovingMarker] ELSE NoneID
    IN
    /\ main[p].pc = "markers"
    /\ main' = [main EXCEPT
          ![p].pc = "control",
          ![p].MovingMarkerID = id,
          ![p].nVertex_MovingMarker = IF found THEN env.nVertex ELSE 0,
          ![p].nVertex_MovingMarker_HALO = IF found THEN env.nHalo ELSE 0,
          ![p].nVertex_MovingMarker_PHYS = IF found THEN env.nVertex - env.nHalo ELSE 0]
    /\ calls' = [calls EXCEPT ![p] = @ \o
          <<Call("GetAllDeformMeshMarkersTag", <<>>),
            Call("GetAllBoundaryMarkers", <<>>)>> \o
          (IF found THEN <<Call("GetNumberVertices", <<id>>),
                           Call("GetNumberHaloVertices", <<id>>)>>
                    ELSE <<>>)]
    /\ UNCHANGED <<world, with_MPI, driverEnv, stdout, arrived, cfgVars>>

\* lines 109-112: the control parameters
GetControl(p) ==
    LET env == driverEnv[p] IN
    /\ main[p].pc = "control"
    /\ main' = [main EXCEPT
          ![p].pc = "coords",
          ![p].deltaT = env.deltaT,
          ![p].TimeIter = env.timeIter0,
          ![p].nTimeIter = env.nTimeIter,
          ![p].time = env.timeIter0 * env.deltaT,
          ![p].iVertex = 0]
    /\ calls' = [calls EXCEPT ![p] = @ \o
          <<Call("GetUnsteady_TimeStep", <<>>),
            Call("GetTime_Iter", <<>>),
            Call("GetnTimeIter", <<>>)>>]
    /\ UNCHANGED <<world, with_MPI, driverEnv, stdout, arrived, cfgVars>>

\* lines 115-119: one pass of the loop over the initial coordinates
GetInitialCoord(p) ==
    /\ main[p].pc = "coords"
    /\ main[p].iVertex < main[p].nVertex_MovingMarker
    /\ Issue(p, Call("GetInitialMeshCoord",
                     <<main[p].MovingMarkerID, main[p].iVertex>>))
    /\ main' = [main EXCEPT ![p].iVertex = @ + 1]
    /\ UNCHANGED <<world, with_MPI, driverEnv, stdout, arrived, cfgVars>>

\* lines 122-126: the banner of rank 0, then the barrier when --parallel
BeginSolver(p) ==
    /\ main[p].pc = "coords"
    /\ main[p].iVertex >= main[p].nVertex_MovingMarker
    /\ Say(p, IF main[p].rank = 0 THEN <<MsgBegin>> ELSE <<>>)
    /\ IF with_MPI
       THEN /\ arrived' = arrived \cup {p}
            /\ Goto(p, "barrier")
       ELSE /\ Goto(p, "while")
            /\ UNCHANGED arrived
    /\ UNCHANGED <<world, with_MPI, driverEnv, calls, cfgVars>>

\* line 126: comm.Barrier() returns once every process of the communicator
\* has entered it
BarrierReturnMutant(p) ==
    /\ main[p].pc = "barrier"
    /\ Goto(p, "while")
    /\ UNCHANGED <<world, with_MPI, driverEnv, calls, stdout, arrived, cfgVars>>

BarrierReturn(p) ==
    /\ main[p].pc = "barrier"
    /\ arrived = world
    /\ Goto(p, "while")
    /\ UNCHANGED <<world, with_MPI, driverEnv, calls, stdout, arrived, cfgVars>>

\* line 128: the loop condition; line 130: d_y of the iteration
LoopTestMutant(p) ==
    /\ main[p].pc = "while"
    /\ IF main[p].TimeIter <= main[p].nTimeIter
       THEN main' = [main EXCEPT ![p].pc = "displace",
                                 ![p].d_y = Displacement(main[p].time),
                                 ![p].iVertex = 0]
       ELSE Goto(p, "finalize")
    /\ UNCHANGED <<world, with_MPI, driverEnv, calls, stdout, arrived, cfgVars>>

LoopTest(p) ==
    /\ main[p].pc = "while"
    /\ IF main[p].TimeIter < main[p].nTimeIter
       THEN main' = [main EXCEPT ![p].pc = "displace",
                                 ![p].d_y = Displacement(main[p].time),
                                 ![p].iVertex = 0]
       ELSE Goto(p, "finalize")
    /\ UNCHANGED <<world, with_MPI, driverEnv, calls, stdout, arrived, cfgVars>>

\* lines 131-132: one pass of the loop over the vertices of the marker
SetMeshDisplacementMutant(p) ==
    /\ main[p].pc = "displace"
    /\ main[p].iVertex < main[p].nVertex_MovingMarker
    /\ Issue(p, Call("SetMeshDisplacement",
                     <<main[p].MovingMarkerID, main[p].iVertex, 0, main[p].d_y, 0>>))
    /\ main' = [main EXCEPT ![p].iVertex = @ + 2]
    /\ UNCHANGED <<world, with_MPI, driverEnv, stdout, arrived, cfgVars>>

SetMeshDisplacement(p) ==
    /\ main[p].pc = "displace"
    /\ main[p].iVertex < main[p].nVertex_MovingMarker
    /\ Issue(p, Call("SetMeshDisplacement",
                     <<main[p].MovingMarkerID, main[p].iVertex, 0, main[p].d_y, 0>>))
    /\ main' = [main EXCEPT ![p].iVertex = @ + 1]
    /\ UNCHANGED <<world, with_MPI, driverEnv, stdout, arrived, cfgVars>>

\* line 134
Preprocess(p) ==
    /\ main[p].pc = "displace"
    /\ main[p].iVertex >= main[p].nVertex_MovingMarker
    /\ Issue(p, Call("Preprocess", <<main[p].TimeIter>>))
    /\ Goto(p, "run")
    /\ UNCHANGED <<world, with_MPI, driverEnv, stdout, arrived, cfgVars>>

\* line 136
Run(p) ==
    /\ main[p].pc = "run"
    /\ Issue(p, Call("Run", <<>>))
    /\ Goto(p, "postprocess")
    /\ UNCHANGED <<world, with_MPI, driverEnv, stdout, arrived, cfgVars>>

\* line 138
Postprocess(p) ==
    /\ main[p].pc = "postprocess"
    /\ Issue(p, Call("Postprocess", <<>>))
    /\ Goto(p, "update")
    /\ UNCHANGED <<world, with_MPI, driverEnv, stdout, arrived, cfgVars>>

\* line 140
Update(p) ==
    /\ main[p].pc = "update"
    /\ Issue(p, Call("Update", <<>>))
    /\ Goto(p, "monitor")
    /\ UNCHANGED <<world, with_MPI, driverEnv, stdout, arrived, cfgVars>>

\* line 142: the driver decides whether the computation stops
Monitor(p) ==
    /\ main[p].pc = "monitor"
    /\ \E stop \in BOOLEAN :
          main' = [main EXCEPT ![p].pc = "output", ![p].stopCalc = stop]
    /\ Issue(p, Call("Monitor", <<main[p].TimeIter>>))
    /\ UNCHANGED <<world, with_MPI, driverEnv, stdout, arrived, cfgVars>>

\* line 143
OutputMutant(p) ==
    /\ main[p].pc = "output"
    /\ IF main[p].stopCalc
       THEN UNCHANGED calls
       ELSE Issue(p, Call("Output", <<main[p].TimeIter>>))
    /\ Goto(p, "check")
    /\ UNCHANGED <<world, with_MPI, driverEnv, stdout, arrived, cfgVars>>

Output(p) ==
    /\ main[p].pc = "output"
    /\ Issue(p, Call("Output", <<main[p].TimeIter>>))
    /\ Goto(p, "check")
    /\ UNCHANGED <<world, with_MPI, driverEnv, stdout, arrived, cfgVars>>

\* lines 144-148: break on stopCalc, else advance the counters
AdvanceFirstMutant(p) ==
    /\ main[p].pc = "check"
    /\ main' = [main EXCEPT ![p].pc = IF main[p].stopCalc THEN "finalize" ELSE "while",
                            ![p].TimeIter = @ + 1,
                            ![p].time = @ + main[p].deltaT]
    /\ UNCHANGED <<world, with_MPI, driverEnv, calls, stdout, arrived, cfgVars>>

AdvanceReturnMutant(p) ==
    /\ main[p].pc = "check"
    /\ IF main[p].stopCalc
       THEN Goto(p, "done")
       ELSE main' = [main EXCEPT ![p].pc = "while",
                                 ![p].TimeIter = @ + 1,
                                 ![p].time = @ + main[p].deltaT]
    /\ UNCHANGED <<world, with_MPI, driverEnv, calls, stdout, arrived, cfgVars>>

Advance(p) ==
    /\ main[p].pc = "check"
    /\ IF main[p].stopCalc
       THEN Goto(p, "finalize")
       ELSE main' = [main EXCEPT ![p].pc = "while",
                                 ![p].TimeIter = @ + 1,
                                 ![p].time = @ + main[p].deltaT]
    /\ UNCHANGED <<world, with_MPI, driverEnv, calls, stdout, arrived, cfgVars>>

\* line 151
Postprocessing(p) ==
    /\ main[p].pc = "finalize"
    /\ Issue(p, Call("Postprocessing", <<>>))
    /\ Goto(p, "release")
    /\ UNCHANGED <<world, with_MPI, driverEnv, stdout, arrived, cfgVars>>

\* lines 153-154: del SU2Driver
Release(p) ==
    /\ main[p].pc = "release"
    /\ main' = [main EXCEPT ![p].pc = "done", ![p].SU2Driver = "deleted"]
    /\ UNCHANGED <<world, with_MPI, driverEnv, calls, stdout, arrived, cfgVars>>

----------------------------------------------------------------------------
(***************************************************************************)
(* FSI_config.py                                                           *)
(***************************************************************************)

\* ---- text, as Python computes it ----
\* A text is a sequence of characters. A character up to U+00FF is the
\* string of that one character; a character above U+00FF is the string of
\* its name, "U+" and its code point in hexadecimal ("U+0663", "U+1D7D1").

\* the characters of str.isspace(), which str.strip() removes by default
Whitespace == {
    "\t", "\n", "", "\f", "\r", "", "", "", "", " ", "", " ",
    "U+1680", "U+2000", "U+2001", "U+2002", "U+2003", "U+2004", "U+2005",
    "U+2006", "U+2007", "U+2008", "U+2009", "U+200A", "U+2028", "U+2029",
    "U+202F", "U+205F", "U+3000" }

\* the whitespace int() and float() accept around a number: that of
\* str.isspace() but the four separators U+001C to U+001F
NumberSpace == Whitespace \ {"", "", "", ""}

\* s without the characters of cs in front, or behind
LStrip(s, cs) ==
    IF \A i \in 1..Len(s) : s[i] \in cs THEN <<>>
    ELSE SubSeq(s, CHOOSE k \in 1..Len(s) :
                       s[k] \notin cs /\ \A j \in 1..(k - 1) : s[j] \in cs,
                Len(s))

RStrip(s, cs) ==
    IF \A i \in 1..Len(s) : s[i] \in cs THEN <<>>
    ELSE SubSeq(s, 1, CHOOSE k \in 1..Len(s) :
                          s[k] \notin cs /\ \A j \in (k + 1)..Len(s) : s[j] \in cs)

\* s.strip(cs)
StripChars(s, cs) == RStrip(LStrip(s, cs), cs)

\* s.strip()
Strip(s) == StripChars(s, Whitespace)

\* c in s
Contains(s, c) == \E i \in 1..Len(s) : s[i] = c

\* s.split(c, 1), for s that contains c
SplitOnce(s, c) ==
    LET i == CHOOSE k \in 1..Len(s) : s[k] = c /\ \A j \in 1..(k - 1) : s[j] # c
    IN  <<SubSeq(s, 1, i - 1), SubSeq(s, i + 1, Len(s))>>

DigitChars == <<"0", "1", "2", "3", "4", "5", "6", "7", "8", "9">>

\* the decimal digits int() and float() read, 0 to 9 in each row: those of
\* ASCII and those of the other scripts (the characters of str.isdecimal())
DecimalDigits == <<
    DigitChars,
    <<"U+0660","U+0661","U+0662","U+0663","U+0664","U+0665","U+0666","U+0667","U+0668","U+0669">>,
    <<"U+06F0","U+06F1","U+06F2","U+06F3","U+06F4","U+06F5","U+06F6","U+06F7","U+06F8","U+06F9">>,
    <<"U+07C0","U+07C1","U+07C2","U+07C3","U+07C4","U+07C5","U+07C6","U+07C7","U+07C8","U+07C9">>,
    <<"U+0966","U+0967","U+0968","U+0969","U+096A","U+096B","U+096C","U+096D","U+096E","U+096F">>,
    <<"U+09E6","U+09E7","U+09E8","U+09E9","U+09EA","U+09EB","U+09EC","U+09ED","U+09EE","U+09EF">>,
    <<"U+0A66","U+0A67","U+0A68","U+0A69","U+0A6A","U+0A6B","U+0A6C","U+0A6D","U+0A6E","U+0A6F">>,
    <<"U+0AE6","U+0AE7","U+0AE8","U+0AE9","U+0AEA","U+0AEB","U+0AEC","U+0AED","U+0AEE","U+0AEF">>,
    <<"U+0B66","U+0B67","U+0B68","U+0B69","U+0B6A","U+0B6B","U+0B6C","U+0B6D","U+0B6E","U+0B6F">>,
    <<"U+0BE6","U+0BE7","U+0BE8","U+0BE9","U+0BEA","U+0BEB","U+0BEC","U+0BED","U+0BEE","U+0BEF">>,
    <<"U+0C66","U+0C67","U+0C68","U+0C69","U+0C6A","U+0C6B","U+0C6C","U+0C6D","U+0C6E","U+0C6F">>,
    <<"U+0CE6","U+0CE7","U+0CE8","U+0CE9","U+0CEA","U+0CEB","U+0CEC","U+0CED","U+0CEE","U+0CEF">>,
    <<"U+0D66","U+0D67","U+0D68","U+0D69","U+0D6A","U+0D6B","U+0D6C","U+0D6D","U+0D6E","U+0D6F">>,
    <<"U+0DE6","U+0DE7","U+0DE8","U+0DE9","U+0DEA","U+0DEB","U+0DEC","U+0DED","U+0DEE","U+0DEF">>,
    <<"U+0E50","U+0E51","U+0E52","U+0E53","U+0E54","U+0E55","U+0E56","U+0E57","U+0E58","U+0E59">>,
    <<"U+0ED0","U+0ED1","U+0ED2","U+0ED3","U+0ED4","U+0ED5","U+0ED6","U+0ED7","U+0ED8","U+0ED9">>,
    <<"U+0F20","U+0F21","U+0F22","U+0F23","U+0F24","U+0F25","U+0F26","U+0F27","U+0F28","U+0F29">>,
    <<"U+1040","U+1041","U+1042","U+1043","U+1044","U+1045","U+1046","U+1047","U+1048","U+1049">>,
    <<"U+1090","U+1091","U+1092","U+1093","U+1094","U+1095","U+1096","U+1097","U+1098","U+1099">>,
    <<"U+17E0","U+17E1","U+17E2","U+17E3","U+17E4","U+17E5","U+17E6","U+17E7","U+17E8","U+17E9">>,
    <<"U+1810","U+1811","U+1812","U+1813","U+1814","U+1815","U+1816","U+1817","U+1818","U+1819">>,
    <<"U+1946","U+1947","U+1948","U+1949","U+194A","U+194B","U+194C","U+194D","U+194E","U+194F">>,
    <<"U+19D0","U+19D1","U+19D2","U+19D3","U+19D4","U+19D5","U+19D6","U+19D7","U+19D8","U+19D9">>,
    <<"U+1A80","U+1A81","U+1A82","U+1A83","U+1A84","U+1A85","U+1A86","U+1A87","U+1A88","U+1A89">>,
    <<"U+1A90","U+1A91","U+1A92","U+1A93","U+1A94","U+1A95","U+1A96","U+1A97","U+1A98","U+1A99">>,
    <<"U+1B50","U+1B51","U+1B52","U+1B53","U+1B54","U+1B55","U+1B56","U+1B57","U+1B58","U+1B59">>,
    <<"U+1BB0","U+1BB1","U+1BB2","U+1BB3","U+1BB4","U+1BB5","U+1BB6","U+1BB7","U+1BB8","U+1BB9">>,
    <<"U+1C40","U+1C41","U+1C42","U+1C43","U+1C44","U+1C45","U+1C46","U+1C47","U+1C48","U+1C49">>,
    <<"U+1C50","U+1C51","U+1C52","U+1C53","U+1C54","U+1C55","U+1C56","U+1C57","U+1C58","U+1C59">>,
    <<"U+A620","U+A621","U+A622","U+A623","U+A624","U+A625","U+A626","U+A627","U+A628","U+A629">>,
    <<"U+A8D0","U+A8D1","U+A8D2","U+A8D3","U+A8D4","U+A8D5","U+A8D6","U+A8D7","U+A8D8","U+A8D9">>,
    <<"U+A900","U+A901","U+A902","U+A903","U+A904","U+A905","U+A906","U+A907","U+A908","U+A909">>,
    <<"U+A9D0","U+A9D1","U+A9D2","U+A9D3","U+A9D4","U+A9D5","U+A9D6","U+A9D7","U+A9D8","U+A9D9">>,
    <<"U+A9F0","U+A9F1","U+A9F2","U+A9F3","U+A9F4","U+A9F5","U+A9F6","U+A9F7","U+A9F8","U+A9F9">>,
    <<"U+AA50","U+AA51","U+AA52","U+AA53","U+AA54","U+AA55","U+AA56","U+AA57","U+AA58","U+AA59">>,
    <<"U+ABF0","U+ABF1","U+ABF2","U+ABF3","U+ABF4","U+ABF5","U+ABF6","U+ABF7","U+ABF8","U+ABF9">>,
    <<"U+FF10","U+FF11","U+FF12","U+FF13","U+FF14","U+FF15","U+FF16","U+FF17","U+FF18","U+FF19">>,
    <<"U+104A0","U+104A1","U+104A2","U+104A3","U+104A4","U+104A5","U+104A6","U+104A7","U+104A8","U+104A9">>,
    <<"U+10D30","U+10D31","U+10D32","U+10D33","U+10D34","U+10D35","U+10D36","U+10D37","U+10D38","U+10D39">>,
    <<"U+11066","U+11067","U+11068","U+11069","U+1106A","U+1106B","U+1106C","U+1106D","U+1106E","U+1106F">>,
    <<"U+110F0","U+110F1","U+110F2","U+110F3","U+110F4","U+110F5","U+110F6","U+110F7","U+110F8","U+110F9">>,
    <<"U+11136","U+11137","U+11138","U+11139","U+1113A","U+1113B","U+1113C","U+1113D","U+1113E","U+1113F">>,
    <<"U+111D0","U+111D1","U+111D2","U+111D3","U+111D4","U+111D5","U+111D6","U+111D7","U+111D8","U+111D9">>,
    <<"U+112F0","U+112F1","U+112F2","U+112F3","U+112F4","U+112F5","U+112F6","U+112F7","U+112F8","U+112F9">>,
    <<"U+11450","U+11451","U+11452","U+11453","U+11454","U+11455","U+11456","U+11457","U+11458","U+11459">>,
    <<"U+114D0","U+114D1","U+114D2","U+114D3","U+114D4","U+114D5","U+114D6","U+114D7","U+114D8","U+114D9">>,
    <<"U+11650","U+11651","U+11652","U+11653","U+11654","U+11655","U+11656","U+11657","U+11658","U+11659">>,
    <<"U+116C0","U+116C1","U+116C2","U+116C3","U+116C4","U+116C5","U+116C6","U+116C7","U+116C8","U+116C9">>,
    <<"U+11730","U+11731","U+11732","U+11733","U+11734","U+11735","U+11736","U+11737","U+11738","U+11739">>,
    <<"U+118E0","U+118E1","U+118E2","U+118E3","U+118E4","U+118E5","U+118E6","U+118E7","U+118E8","U+118E9">>,
    <<"U+11950","U+11951","U+11952","U+11953","U+11954","U+11955","U+11956","U+11957","U+11958","U+11959">>,
    <<"U+11C50","U+11C51","U+11C52","U+11C53","U+11C54","U+11C55","U+11C56","U+11C57","U+11C58","U+11C59">>,
    <<"U+11D50","U+11D51","U+11D52","U+11D53","U+11D54","U+11D55","U+11D56","U+11D57","U+11D58","U+11D59">>,
    <<"U+11DA0","U+11DA1","U+11DA2","U+11DA3","U+11DA4","U+11DA5","U+11DA6","U+11DA7","U+11DA8","U+11DA9">>,
    <<"U+16A60","U+16A61","U+16A62","U+16A63","U+16A64","U+16A65","U+16A66","U+16A67","U+16A68","U+16A69">>,
    <<"U+16AC0","U+16AC1","U+16AC2","U+16AC3","U+16AC4","U+16AC5","U+16AC6","U+16AC7","U+16AC8","U+16AC9">>,
    <<"U+16B50","U+16B51","U+16B52","U+16B53","U+16B54","U+16B55","U+16B56","U+16B57","U+16B58","U+16B59">>,
    <<"U+1D7CE","U+1D7CF","U+1D7D0","U+1D7D1","U+1D7D2","U+1D7D3","U+1D7D4","U+1D7D5","U+1D7D6","U+1D7D7">>,
    <<"U+1D7D8","U+1D7D9","U+1D7DA","U+1D7DB","U+1D7DC","U+1D7DD","U+1D7DE","U+1D7DF","U+1D7E0","U+1D7E1">>,
    <<"U+1D7E2","U+1D7E3","U+1D7E4","U+1D7E5","U+1D7E6","U+1D7E7","U+1D7E8","U+1D7E9","U+1D7EA","U+1D7EB">>,
    <<"U+1D7EC","U+1D7ED","U+1D7EE","U+1D7EF","U+1D7F0","U+1D7F1","U+1D7F2","U+1D7F3","U+1D7F4","U+1D7F5">>,
    <<"U+1D7F6","U+1D7F7","U+1D7F8","U+1D7F9","U+1D7FA","U+1D7FB","U+1D7FC","U+1D7FD","U+1D7FE","U+1D7FF">>,
    <<"U+1E140","U+1E141","U+1E142","U+1E143","U+1E144","U+1E145","U+1E146","U+1E147","U+1E148","U+1E149">>,
    <<"U+1E2F0","U+1E2F1","U+1E2F2","U+1E2F3","U+1E2F4","U+1E2F5","U+1E2F6","U+1E2F7","U+1E2F8","U+1E2F9">>,
    <<"U+1E950","U+1E951","U+1E952","U+1E953","U+1E954","U+1E955","U+1E956","U+1E957","U+1E958","U+1E959">>,
    <<"U+1FBF0","U+1FBF1","U+1FBF2","U+1FBF3","U+1FBF4","U+1FBF5","U+1FBF6","U+1FBF7","U+1FBF8","U+1FBF9">> >>

DigitSet == { DecimalDigits[r][i] : r \in 1..Len(DecimalDigits), i \in 1..10 }
DigitValues == [c \in DigitSet |->
                   (CHOOSE i \in 1..10 :
                        \E r \in 1..Len(DecimalDigits) : DecimalDigits[r][i] = c) - 1]
IsDigit(c) == c \in DigitSet
DigitVal(c) == DigitValues[c]

UpperChars == <<"A","B","C","D","E","F","G","H","I","J","K","L","M",
                "N","O","P","Q","R","S","T","U","V","W","X","Y","Z">>
LowerChars == <<"a","b","c","d","e","f","g","h","i","j","k","l","m",
                "n","o","p","q","r","s","t","u","v","w","x","y","z">>
\* the letters of a number literal are read without regard to case
LowerChar(c) == IF \E i \in 1..26 : UpperChars[i] = c
                THEN LowerChars[CHOOSE i \in 1..26 : UpperChars[i] = c]
                ELSE c
Lower(s) == [i \in 1..Len(s) |-> LowerChar(s[i])]

\* A digit part of a number literal: digits, with single underscores
\* between digits.
DigitsOK(s) ==
    /\ s # <<>>
    /\ IsDigit(s[1])
    /\ IsDigit(s[Len(s)])
    /\ \A i \in 1..Len(s) : IsDigit(s[i]) \/ s[i] = "_"
    /\ \A i \in 1..(Len(s) - 1) : ~(s[i] = "_" /\ s[i + 1] = "_")

WithoutUnderscores(s) == SelectSeq(s, LAMBDA c : c # "_")

NoZerosInFront(ds) ==
    IF \A i \in 1..Len(ds) : ds[i] = 0 THEN <<>>
    ELSE SubSeq(ds, CHOOSE k \in 1..Len(ds) :
                        ds[k] # 0 /\ \A j \in 1..(k - 1) : ds[j] = 0,
                Len(ds))

\* the digits, 0 to 9, that the characters of a digit part stand for
DigitsValue(s) == LET chars == WithoutUnderscores(s)
                  IN  NoZerosInFront([i \in 1..Len(chars) |-> DigitVal(chars[i])])

HasSign(s) == s # <<>> /\ Head(s) \in {"+", "-"}
Unsigned(s) == IF HasSign(s) THEN Tail(s) ELSE s
SignOf(s) == IF s # <<>> /\ Head(s) = "-" THEN -1 ELSE 1

\* ---- typed values ----
\* A number is written with its sign and the decimal digits of its size, the
\* first not 0, none for 0: a Python int has any number of digits, and the
\* repr() of a double up to 17. An int is [type "int", neg, digits]; a float
\* is [type "float", neg, digits, e, s]: the double whose repr() has these
\* digits and stands for digits * 10^e, the last digit not 0, or, with s not
\* empty, one of inf, -inf, nan and -0; a str is [type "str", s].
IntOf(neg, ds) ==
    [type |-> "int", neg |-> neg /\ ds # <<>>, digits |-> ds, e |-> 0, s |-> <<>>]
FloatOf(neg, ds, e) ==
    [type |-> "float", neg |-> neg, digits |-> ds, e |-> e, s |-> <<>>]
FloatSpecial(s) ==
    [type |-> "float", neg |-> FALSE, digits |-> <<>>, e |-> 0, s |-> s]
StrVal(s) ==
    [type |-> "str", neg |-> FALSE, digits |-> <<>>, e |-> 0, s |-> s]

RECURSIVE DigitsOf(_)
DigitsOf(n) == IF n = 0 THEN <<>> ELSE DigitsOf(n \div 10) \o <<n % 10>>

\* the int n, and the float n * 10^e for n not a multiple of 10
IntVal(n)      == IntOf(n < 0, DigitsOf(IF n < 0 THEN -n ELSE n))
FloatVal(n, e) == FloatOf(n < 0, DigitsOf(IF n < 0 THEN -n ELSE n), e)

\* the floats that are no decimal number: repr() gives these texts but "-0.0"
INF_POS  == <<"i","n","f">>
INF_NEG  == <<"-","i","n","f">>
NAN      == <<"n","a","n">>
ZERO_NEG == <<"-","0">>

Failed == [ok |-> FALSE, value |-> IntVal(0)]
Parsed(v) == [ok |-> TRUE, value |-> v]

\* sys.get_int_max_str_digits(): int() of a text of more digits, and str() of
\* an int of more digits, raise ValueError
MaxStrDigits == 4300

\* the digits a conversion counts: the zeros in front too, no underscore
IntDigitsOK(s) == DigitsOK(s) /\ Len(WithoutUnderscores(s)) <= MaxStrDigits

\* int(text) raises no ValueError: text is, between whitespace, an optional
\* sign and a digit part of at most MaxStrDigits digits
IsInt(text) == IntDigitsOK(Unsigned(StripChars(text, NumberSpace)))

\* int(text): ValueError (ok = FALSE) unless text is an int literal
ParseInt(text) ==
    LET t == StripChars(text, NumberSpace)
    IN  IF IsInt(text)
        THEN Parsed(IntOf(SignOf(t) < 0, DigitsValue(Unsigned(t))))
        ELSE Failed

RECURSIVE NatDigits(_)
NatDigits(n) == IF n < 10 THEN <<DigitChars[n + 1]>>
                ELSE NatDigits(n \div 10) \o <<DigitChars[(n % 10) + 1]>>

\* ---- float(): the double nearest to a decimal literal ----
\* The arithmetic of the conversion is exact, on naturals of any size: a
\* natural is the sequence of its limbs in base 10^9, the least significant
\* first, without a most significant limb of zero (0 is the empty sequence).
Limb == 1000000000
LimbDigits == 9

RECURSIVE Ten(_)
Ten(k) == IF k = 0 THEN 1 ELSE 10 * Ten(k - 1)

RECURSIVE BigTrim(_)
BigTrim(a) == IF a # <<>> /\ a[Len(a)] = 0 THEN BigTrim(SubSeq(a, 1, Len(a) - 1))
              ELSE a

\* the number of a sequence of digits (0..9), the most significant first
RECURSIVE SmallOfDigits(_)
SmallOfDigits(ds) == IF ds = <<>> THEN 0
                     ELSE 10 * SmallOfDigits(SubSeq(ds, 1, Len(ds) - 1)) + ds[Len(ds)]

BigOfDigits(ds) ==
    LET n     == Len(ds)
        limbs == (n + LimbDigits - 1) \div LimbDigits
        from(i) == IF n - LimbDigits * i + 1 < 1 THEN 1 ELSE n - LimbDigits * i + 1
    IN  BigTrim([i \in 1..limbs |->
                    SmallOfDigits(SubSeq(ds, from(i), n - LimbDigits * (i - 1)))])

\* -1, 0 or 1 as a < b, a = b or a > b
BigCmp(a, b) ==
    IF Len(a) > Len(b) THEN 1
    ELSE IF Len(a) < Len(b) THEN -1
    ELSE IF a = b THEN 0
    ELSE IF a[Len(a)] # b[Len(a)] THEN (IF a[Len(a)] > b[Len(a)] THEN 1 ELSE -1)
    ELSE LET i == CHOOSE k \in 1..Len(a) :
                      a[k] # b[k] /\ \A j \in (k + 1)..Len(a) : a[j] = b[j]
         IN  IF a[i] > b[i] THEN 1 ELSE -1

\* 2 * a: a limb carries into the next when it is half the base or more
BigDouble(a) ==
    LET half == Limb \div 2
        n    == Len(a)
    IN  IF a = <<>> THEN a
        ELSE [i \in 1..n |-> ((2 * a[i]) % Limb)
                             + (IF i > 1 /\ a[i - 1] >= half THEN 1 ELSE 0)]
             \o (IF a[n] >= half THEN <<1>> ELSE <<>>)

\* a - b, for a >= b: a limb borrows from the next when what is below it in
\* a is less than what is below it in b
BigSub(a, b) ==
    LET bb(i) == IF i <= Len(b) THEN b[i] ELSE 0
        borrow(i) == IF i = 1 THEN 0
                     ELSE IF a[i - 1] # bb(i - 1)
                     THEN (IF a[i - 1] < bb(i - 1) THEN 1 ELSE 0)
                     ELSE IF \E j \in 1..(i - 1) :
                                a[j] < bb(j) /\ \A l \in (j + 1)..(i - 1) : a[l] = bb(l)
                     THEN 1 ELSE 0
        limb(i) == a[i] - bb(i) - borrow(i)
    IN  BigTrim([i \in 1..Len(a) |-> IF limb(i) < 0 THEN limb(i) + Limb ELSE limb(i)])

\* a * 2^k, by halves of k
RECURSIVE BigMulPow2(_, _)
BigMulPow2(a, k) == IF a = <<>> \/ k = 0 THEN a
                    ELSE IF k = 1 THEN BigDouble(a)
                    ELSE BigMulPow2(BigMulPow2(a, k \div 2), k - (k \div 2))

\* a * 10^k: the limbs move up by k \div 9 places and the digits by k % 9
BigMulPow10(a, k) ==
    LET r  == k % LimbDigits
        hi == Ten(LimbDigits - r)
        lo == Ten(r)
        moved == IF r = 0 THEN a
                 ELSE BigTrim([i \in 1..(Len(a) + 1) |->
                                  (IF i <= Len(a) THEN (a[i] % hi) * lo ELSE 0)
                                  + (IF i > 1 THEN a[i - 1] \div hi ELSE 0)])
    IN  IF a = <<>> THEN a
        ELSE [i \in 1..(k \div LimbDigits) |-> 0] \o moved

\* how many times t goes into r, for r < 10 * t, and what is left of r
RECURSIVE TimesIn(_, _, _)
TimesIn(r, t, c) == IF BigCmp(r, t) < 0 THEN [count |-> c, rest |-> r]
                    ELSE TimesIn(BigSub(r, t), t, c + 1)

\* the p + 1 decimal digits of the quotient of r by d, for r < d * 10^(p+1),
\* and the remainder
RECURSIVE BigDivDigits(_, _, _)
BigDivDigits(r, d, p) ==
    LET step == TimesIn(r, BigMulPow10(d, p), 0) IN
    IF p = 0 THEN [digits |-> <<step.count>>, rest |-> step.rest]
    ELSE LET more == BigDivDigits(step.rest, d, p - 1)
         IN  [digits |-> <<step.count>> \o more.digits, rest |-> more.rest]

\* digits without the zeros in front, without the zeros behind, plus one
NoZerosBehind(ds) ==
    IF \A i \in 1..Len(ds) : ds[i] = 0 THEN <<>>
    ELSE SubSeq(ds, 1, CHOOSE k \in 1..Len(ds) :
                           ds[k] # 0 /\ \A j \in (k + 1)..Len(ds) : ds[j] = 0)

RECURSIVE DigitsInc(_)
DigitsInc(ds) == IF ds = <<>> THEN <<1>>
                 ELSE IF ds[Len(ds)] < 9
                 THEN SubSeq(ds, 1, Len(ds) - 1) \o <<ds[Len(ds)] + 1>>
                 ELSE DigitsInc(SubSeq(ds, 1, Len(ds) - 1)) \o <<0>>

\* 2^52 and 2^53, in digits: a double is m * 2^q with m < 2^53, and
\* 2^52 <= m unless q = -1074; the largest q is 971
Two52 == <<4,5,0,3,5,9,9,6,2,7,3,7,0,4,9,6>>
Two53 == <<9,0,0,7,1,9,9,2,5,4,7,4,0,9,9,2>>
MinExp2 == -1074
MaxExp2 == 971

\* the first q from q on with a < b * 2^53, b doubled on the way
RECURSIVE RaiseExp2(_, _, _)
RaiseExp2(a, b, q) == IF BigCmp(a, BigMulPow2(b, 53)) < 0 THEN [b |-> b, q |-> q]
                      ELSE RaiseExp2(a, BigDouble(b), q + 1)

\* m and q of the double from the quotient div of a by up.b = b * 2^up.q,
\* in 16 digits with a remainder: the quotient is rounded to the nearest
\* natural, a tie to the even one, and 2^53 is 2^52 with the next exponent
RoundUp(div, up) ==
    LET m0    == NoZerosInFront(div.digits)
        twice == BigCmp(BigDouble(div.rest), up.b)
        odd   == m0 # <<>> /\ m0[Len(m0)] % 2 = 1
        m1    == IF twice > 0 \/ (twice = 0 /\ odd) THEN DigitsInc(m0) ELSE m0
        m     == IF m1 = Two53 THEN Two52 ELSE m1
        q     == IF m1 = Two53 THEN up.q + 1 ELSE up.q
    IN  IF m = <<>> THEN [kind |-> "zero", m |-> <<>>, q |-> 0]
        ELSE IF q > MaxExp2 THEN [kind |-> "inf", m |-> <<>>, q |-> 0]
        ELSE [kind |-> "finite", m |-> m, q |-> q]

\* the double nearest to a / up.b * 2^up.q, for a < up.b * 2^53
RoundDouble(a, up) == RoundUp(BigDivDigits(a, up.b, 15), up)

\* The double nearest to ds * 10^e, ties to the even m; ds are digits, the
\* first not 0, and the number lies between 1e-330 and 1e330. The exponent
\* starts from a lower estimate of the binary logarithm.
ToDouble(ds, e) ==
    LET mag   == Len(ds) + e
        low   == (((mag - 1) * 3321928) \div 1000000) - 54
        q0    == IF low < MinExp2 THEN MinExp2 ELSE low
        num   == BigMulPow10(BigOfDigits(ds), IF e > 0 THEN e ELSE 0)
        den   == BigMulPow10(<<1>>, IF e < 0 THEN -e ELSE 0)
        a     == IF q0 < 0 THEN BigMulPow2(num, -q0) ELSE num
    IN  RoundDouble(a, RaiseExp2(a, IF q0 > 0 THEN BigMulPow2(den, q0) ELSE den, q0))

\* the first dec from dec on with a / b < 10^dec
RECURSIVE RaiseExp10(_, _, _)
RaiseExp10(a, b, dec) ==
    IF BigCmp(BigMulPow10(a, IF dec < 0 THEN -dec ELSE 0),
              BigMulPow10(b, IF dec > 0 THEN dec ELSE 0)) < 0
    THEN dec
    ELSE RaiseExp10(a, b, dec + 1)

\* The digits of repr() for the double x: the decimal number of the fewest
\* digits that float() reads back as x, and of those the one nearest to x
\* (of two equally near, the even one). float() reads back as x what lies
\* between the two halfway points low and high around x, and the points
\* themselves when the mantissa of x is even. digits are the 17 first digits
\* of x, rest / den what follows them, low and high the halfway points in
\* the same 17 places; the candidates of d digits are the d first digits,
\* below x, and that plus one, above.
RECURSIVE ShortestFrom(_, _, _, _, _, _, _, _)
ShortestFrom(dec, digits, rest, den, low, high, even, d) ==
    LET tail   == SubSeq(digits, d + 1, 17)
        zeros  == [i \in 1..(17 - d) |-> 0]
        lo     == SubSeq(digits, 1, d)
        hi     == DigitsInc(lo)
        overLo == BigCmp(BigOfDigits(lo \o zeros), BigOfDigits(low.digits))
        overHi == BigCmp(BigOfDigits(hi \o zeros), BigOfDigits(high.digits))
        loOK   == overLo > 0 \/ (overLo = 0 /\ low.rest = <<>> /\ even)
        hiOK   == overHi < 0 \/ (overHi = 0 /\ (high.rest # <<>> \/ even))
        half   == IF d = 17 THEN BigCmp(BigDouble(rest), den)
                  ELSE IF Head(tail) > 5 THEN 1
                  ELSE IF Head(tail) < 5 THEN -1
                  ELSE IF NoZerosInFront(Tail(tail)) = <<>> /\ rest = <<>> THEN 0
                  ELSE 1
        down   == half < 0 \/ (half = 0 /\ Head(SubSeq(digits, d, d)) % 2 = 0)
    IN  IF loOK /\ (down \/ ~hiOK) THEN [digits |-> lo, e |-> dec - d]
        ELSE IF hiOK THEN [digits |-> hi, e |-> dec - d]
        ELSE ShortestFrom(dec, digits, rest, den, low, high, even, d + 1)

\* the shortest digits among the candidates, without the zeros behind
ShortestAmong(dec, mid, den, low, high, even) ==
    LET best == ShortestFrom(dec, Tail(mid.digits), mid.rest, den, low, high, even, 1)
        ds   == NoZerosBehind(best.digits)
    IN  [digits |-> ds, e |-> best.e + Len(best.digits) - Len(ds)]

\* x = four / (4 * b) * 2^up2 lies below 10^dec: x and the halfway points
\* around it, in 17 digits from the place of 10^(dec-1) on
ShortestAt(x, four, up2, b, dec) ==
    LET below == BigSub(four, IF x.m = Two52 /\ x.q > MinExp2 THEN <<1>> ELSE <<2>>)
        above == [four EXCEPT ![1] = @ + 2]
        up10  == IF dec < 17 THEN 17 - dec ELSE 0
        den   == BigMulPow10(b, IF dec > 17 THEN dec - 17 ELSE 0)
        even  == Head(SubSeq(x.m, Len(x.m), Len(x.m))) % 2 = 0
        in17(n) == BigDivDigits(BigMulPow10(BigMulPow2(n, up2), up10), den, 17)
    IN  ShortestAmong(dec, in17(four), den, in17(below), in17(above), even)

Shortest(x) ==
    LET four  == BigDouble(BigDouble(BigOfDigits(x.m)))
        up2   == IF x.q > 2 THEN x.q - 2 ELSE 0
        b     == BigMulPow2(<<1>>, IF x.q < 2 THEN 2 - x.q ELSE 0)
        e2    == IF x.q >= 0 THEN (x.q * 30102) \div 100000
                 ELSE (x.q * 30103) \div 100000
    IN  ShortestAt(x, four, up2, b,
                   RaiseExp10(BigMulPow2(four, up2), b, Len(x.m) + e2))

\* the float of the double x with the sign: repr() gives its shortest digits
FloatOfShortest(sign, r) == FloatOf(sign < 0, r.digits, r.e)

FloatOfDouble(sign, x) ==
    IF x.kind = "inf" THEN FloatSpecial(IF sign < 0 THEN INF_NEG ELSE INF_POS)
    ELSE IF x.kind = "zero"
    THEN (IF sign < 0 THEN FloatSpecial(ZERO_NEG) ELSE FloatOf(FALSE, <<>>, 0))
    ELSE FloatOfShortest(sign, Shortest(x))

\* the float of the digits ds, the first not 0, times 10^e: a literal of at
\* most 15 digits between 1e-307 and 1e308 is the repr() of its double (15
\* digits go through a double unchanged); any other literal is rounded
FloatOfDigits(sign, ds, e) ==
    LET sig  == NoZerosBehind(ds)
        se   == e + Len(ds) - Len(sig)
        mag  == Len(sig) + se
    IN  IF Len(sig) <= 15 /\ mag >= -306 /\ mag <= 308
        THEN FloatOf(sign < 0, sig, se)
        ELSE IF mag > 309 THEN FloatOfDouble(sign, [kind |-> "inf"])
        ELSE IF mag < -323 THEN FloatOfDouble(sign, [kind |-> "zero"])
        ELSE FloatOfDouble(sign, ToDouble(sig, se))

\* float() reads an exponent of more than MaxExpDigits digits, the zeros in
\* front not counted, as MaxAbsExp, and raises ValueError for a literal of
\* more than MaxDigits digits, the zeros in front not counted, or of more
\* than MaxDigits digits behind the point
MaxExpDigits == 9
MaxAbsExp == 1100000000
MaxDigits == 1000000000

\* The parts of a float literal: text is, between whitespace, an optional
\* sign and inf, infinity, nan (ok, with no digit part) or a decimal literal
\* with an optional exponent (ok when its digit parts are, and are not of
\* more than MaxDigits digits).
FloatText(text) ==
    LET t    == StripChars(text, NumberSpace)
        low  == Lower(Unsigned(t))
        hasE == Contains(low, "e")
        mant == IF hasE THEN SplitOnce(low, "e")[1] ELSE low
        expo == IF hasE THEN SplitOnce(low, "e")[2] ELSE <<"0">>
        hasP == Contains(mant, ".")
        ip   == IF hasP THEN SplitOnce(mant, ".")[1] ELSE mant
        fp   == IF hasP THEN SplitOnce(mant, ".")[2] ELSE <<>>
        name == low \in {INF_POS, <<"i","n","f","i","n","i","t","y">>, NAN}
    IN  [sign |-> SignOf(t), low |-> low, ip |-> ip, fp |-> fp, expo |-> expo,
         ok |-> \/ name
                \/ /\ DigitsOK(Unsigned(expo))
                   /\ ip # <<>> \/ fp # <<>>
                   /\ ip = <<>> \/ DigitsOK(ip)
                   /\ fp = <<>> \/ DigitsOK(fp)
                   /\ Len(DigitsValue(ip \o fp)) <= MaxDigits
                   /\ Len(WithoutUnderscores(fp)) <= MaxDigits]

\* float(text) raises no ValueError
IsFloat(text) == FloatText(text).ok

\* the float of the parts p of a float literal
FloatOfText(p) ==
    LET ds   == DigitsValue(p.ip \o p.fp)
        eds  == DigitsValue(Unsigned(p.expo))
        e    == SignOf(p.expo) * (IF Len(eds) > MaxExpDigits THEN MaxAbsExp
                                  ELSE SmallOfDigits(eds))
                - Len(WithoutUnderscores(p.fp))
    IN  IF p.low = NAN THEN FloatSpecial(NAN)
        ELSE IF p.low \in {INF_POS, <<"i","n","f","i","n","i","t","y">>}
        THEN FloatSpecial(IF p.sign < 0 THEN INF_NEG ELSE INF_POS)
        ELSE IF ds = <<>>
        THEN (IF p.sign < 0 THEN FloatSpecial(ZERO_NEG) ELSE FloatOf(FALSE, <<>>, 0))
        ELSE FloatOfDigits(p.sign, ds, e)

\* float(text): ValueError (ok = FALSE) unless text is a float literal
ParseFloatText(p) == IF p.ok THEN Parsed(FloatOfText(p)) ELSE Failed

ParseFloat(text) == ParseFloatText(FloatText(text))

\* ---- rendering, for __str__ ----
DigitText(ds) == [i \in 1..Len(ds) |-> DigitChars[ds[i] + 1]]

\* a rendering: its text, or ValueError (ok = FALSE)
Rendered(text) == [ok |-> TRUE, text |-> text]
NotRendered == [ok |-> FALSE, text |-> <<>>]

\* str(n) of an int: ValueError for more than MaxStrDigits digits
FormatInt(v) == IF Len(v.digits) > MaxStrDigits THEN NotRendered
                ELSE IF v.digits = <<>> THEN Rendered(<<"0">>)
                ELSE Rendered((IF v.neg THEN <<"-">> ELSE <<>>) \o DigitText(v.digits))

Zeros(k) == [i \in 1..k |-> "0"]

\* repr(x) of a float n * 10^e: fixed notation when the decimal point falls
\* within -4 < point <= 16, else d.ddde+XX
FormatFloat(v) ==
    LET digits == DigitText(v.digits)
        len    == Len(digits)
        point  == len + v.e
        x      == point - 1
        xd     == NatDigits(IF x < 0 THEN -x ELSE x)
        body   == IF digits = <<>> THEN <<"0",".","0">>
                  ELSE IF point > 16 \/ point <= -4
                  THEN <<digits[1]>>
                       \o (IF len > 1 THEN <<".">> \o SubSeq(digits, 2, len) ELSE <<>>)
                       \o <<"e">> \o (IF x < 0 THEN <<"-">> ELSE <<"+">>)
                       \o (IF Len(xd) < 2 THEN <<"0">> ELSE <<>>) \o xd
                  ELSE IF point <= 0
                  THEN <<"0",".">> \o Zeros(-point) \o digits
                  ELSE IF point >= len
                  THEN digits \o Zeros(point - len) \o <<".","0">>
                  ELSE SubSeq(digits, 1, point) \o <<".">> \o SubSeq(digits, point + 1, len)
    IN  IF v.s = ZERO_NEG THEN <<"-","0",".","0">>
        ELSE IF v.s # <<>> THEN v.s
        ELSE (IF v.neg THEN <<"-">> ELSE <<>>) \o body

\* "{}".format(value)
FormatValue(v) == CASE v.type = "int"   -> FormatInt(v)
                    [] v.type = "float" -> Rendered(FormatFloat(v))
                    [] OTHER            -> Rendered(v.s)

\* ---- the option names ----
K_NDIM                 == <<"N","D","I","M">>
K_RESTART_ITER         == <<"R","E","S","T","A","R","T","_","I","T","E","R">>
K_TIME_TRESHOLD        == <<"T","I","M","E","_","T","R","E","S","H","O","L","D">>
K_NB_FSI_ITER          == <<"N","B","_","F","S","I","_","I","T","E","R">>
K_RBF_RADIUS           == <<"R","B","F","_","R","A","D","I","U","S">>
K_AITKEN_PARAM         == <<"A","I","T","K","E","N","_","P","A","R","A","M">>
K_UNST_TIMESTEP        == <<"U","N","S","T","_","T","I","M","E","S","T","E","P">>
K_UNST_TIME            == <<"U","N","S","T","_","T","I","M","E">>
K_FSI_TOLERANCE        == <<"F","S","I","_","T","O","L","E","R","A","N","C","E">>
K_CFD_CONFIG_FILE_NAME == <<"C","F","D","_","C","O","N","F","I","G","_","F","I","L","E","_","N","A","M","E">>
K_CSD_SOLVER           == <<"C","S","D","_","S","O","L","V","E","R">>
K_CSD_CONFIG_FILE_NAME == <<"C","S","D","_","C","O","N","F","I","G","_","F","I","L","E","_","N","A","M","E">>
K_RESTART_SOL          == <<"R","E","S","T","A","R","T","_","S","O","L">>
K_MATCHING_MESH        == <<"M","A","T","C","H","I","N","G","_","M","E","S","H">>
K_MESH_INTERP_METHOD   == <<"M","E","S","H","_","I","N","T","E","R","P","_","M","E","T","H","O","D">>
K_DISP_PRED            == <<"D","I","S","P","_","P","R","E","D">>
K_AITKEN_RELAX         == <<"A","I","T","K","E","N","_","R","E","L","A","X">>
K_TIME_MARCHING        == <<"T","I","M","E","_","M","A","R","C","H","I","N","G">>

IMPOSED == <<"I","M","P","O","S","E","D">>
STATIC  == <<"S","T","A","T","I","C">>

\* ---- self._ConfigContent: a dict, kept in insertion order ----
DictHas(d, key) == \E i \in 1..Len(d) : d[i].key = key
DictGet(d, key) == d[CHOOSE i \in 1..Len(d) : d[i].key = key].value
DictKeys(d)     == { d[i].key : i \in 1..Len(d) }
\* d[key] = value
DictSet(d, key, value) ==
    IF DictHas(d, key)
    THEN [i \in 1..Len(d) |-> IF d[i].key = key THEN [key |-> key, value |-> value]
                                                ELSE d[i]]
    ELSE Append(d, [key |-> key, value |-> value])

\* lines 91-118: the kind of value an option name takes
KindOfMutant(this_param) ==
    IF this_param \in {K_NDIM, K_RESTART_ITER, K_TIME_TRESHOLD, K_NB_FSI_ITER}
    THEN "int"
    ELSE IF this_param \in {K_RBF_RADIUS, K_AITKEN_PARAM, K_UNST_TIMESTEP,
                            K_FSI_TOLERANCE}
    THEN "float"
    ELSE IF this_param \in {K_CFD_CONFIG_FILE_NAME, K_CSD_SOLVER,
                            K_CSD_CONFIG_FILE_NAME, K_RESTART_SOL,
                            K_MATCHING_MESH, K_MESH_INTERP_METHOD, K_DISP_PRED,
                            K_AITKEN_RELAX, K_TIME_MARCHING, K_UNST_TIME}
    THEN "str"
    ELSE "invalid"

KindOf(this_param) ==
    IF this_param \in {K_NDIM, K_RESTART_ITER, K_TIME_TRESHOLD, K_NB_FSI_ITER}
    THEN "int"
    ELSE IF this_param \in {K_RBF_RADIUS, K_AITKEN_PARAM, K_UNST_TIMESTEP,
                            K_UNST_TIME, K_FSI_TOLERANCE}
    THEN "float"
    ELSE IF this_param \in {K_CFD_CONFIG_FILE_NAME, K_CSD_SOLVER,
                            K_CSD_CONFIG_FILE_NAME, K_RESTART_SOL,
                            K_MATCHING_MESH, K_MESH_INTERP_METHOD, K_DISP_PRED,
                            K_AITKEN_RELAX, K_TIME_MARCHING}
    THEN "str"
    ELSE "invalid"

\* The state of a load: the dict, what was printed, the exception raised.
LoadStart == [content |-> <<>>, out |-> <<>>, error |-> "none"]

\* lines 118-119: an option name outside the three lists
InvalidOptionMutant(st, this_param, this_value) ==
    [st EXCEPT !.out = Append(@, this_param \o <<" ","i","s"," ","a","n"," ","i","n","v","a","l","i","d"," ","o","p","t","i","o","n"," ","!">>),
               !.content = DictSet(@, this_param, StrVal(this_value))]

InvalidOption(st, this_param, this_value) ==
    [st EXCEPT !.out = Append(@, this_param \o <<" ","i","s"," ","a","n"," ","i","n","v","a","l","i","d"," ","o","p","t","i","o","n"," ","!">>)]

\* lines 92-104: int() or float() of the value raises ValueError or gives the
\* number stored under the name
StoreNumber(st, this_param, number) ==
    IF number.ok
    THEN [st EXCEPT !.content = DictSet(@, this_param, number.value)]
    ELSE [st EXCEPT !.error = "ValueError"]

\* lines 91-119: the option by the list that holds its name
StoreOption(st, this_param, this_value, kind) ==
    CASE kind = "int"   -> StoreNumber(st, this_param, ParseInt(this_value))
      [] kind = "float" -> StoreNumber(st, this_param, ParseFloat(this_value))
      [] kind = "str"   ->
             [st EXCEPT !.content = DictSet(@, this_param, StrVal(this_value))]
      [] OTHER          -> InvalidOption(st, this_param, this_value)

\* lines 81-119: the body of the loop of readConfig, for one line of the file
ReadLine(st, rawline) ==
    LET line == StripChars(rawline, {"\r", "\n"}) IN
    IF (~Contains(line, "=")) \/ line[1] = "%"
    THEN st
    ELSE LET parts      == SplitOnce(line, "=")
             this_param == Strip(parts[1])
         IN  StoreOption(st, this_param, Strip(parts[2]), KindOf(this_param))

\* lines 75-119: readConfig over the lines readline() returns, up to the
\* first exception
RECURSIVE ReadLines(_, _)
ReadLines(st, lines) ==
    IF lines = <<>> \/ st.error # "none" THEN st
    ELSE ReadLines(ReadLine(st, Head(lines)), Tail(lines))

\* lines 121-124: applyDefaults on a dict that holds CSD_SOLVER
applyDefaultsMutant(content) ==
    IF DictGet(content, K_CSD_SOLVER) = StrVal(IMPOSED)
    THEN LET c1 == IF DictHas(content, K_AITKEN_RELAX) THEN content
                   ELSE DictSet(content, K_AITKEN_RELAX, StrVal(STATIC))
         IN  IF DictHas(c1, K_AITKEN_PARAM) THEN c1
             ELSE DictSet(c1, K_AITKEN_PARAM, FloatVal(1, 0))
    ELSE content

applyDefaults(content) ==
    IF DictGet(content, K_CSD_SOLVER) = StrVal(IMPOSED)
    THEN DictSet(DictSet(content, K_AITKEN_RELAX, StrVal(STATIC)),
                 K_AITKEN_PARAM, FloatVal(1, 0))
    ELSE content

NoResult == [kind |-> "none", value |-> IntVal(0), text |-> <<>>]

\* line 66: the line of a key before the lines of the keys behind it; an
\* exception of format() ends __str__
DumpLine(key, value, rest) ==
    IF value.ok /\ rest.ok
    THEN Rendered(key \o <<" ","="," ">> \o value.text \o <<"\n">> \o rest.text)
    ELSE NotRendered

\* lines 63-67: __str__
RECURSIVE DumpOf(_)
DumpOf(d) == IF d = <<>> THEN Rendered(<<>>)
             ELSE DumpLine(Head(d).key, FormatValue(Head(d).value), DumpOf(Tail(d)))

Raised(error) == [kind |-> error, value |-> IntVal(0), text |-> <<>>]

\* lines 75-119: readConfig, called by __init__ (lines 57-60) on the empty
\* dict or by a user of the constructed object; it stores into the dict as it
\* is, and open() raises FileNotFoundError when there is no such file. An
\* exception ends __init__; raised to a user, it leaves the object as it is
\* then.
readConfig ==
    /\ cfg_pc \in {"init", "ready"}
    /\ cfg_pc = "ready" => Len(written) < MaxWrites
    /\ \E st \in {IF fileExists
                   THEN ReadLines([LoadStart EXCEPT !.content = ConfigContent], ConfigFile)
                   ELSE [LoadStart EXCEPT !.content = ConfigContent,
                                          !.error = "FileNotFoundError"]} :
          /\ ConfigContent' = st.content
          /\ cfg_out' = cfg_out \o st.out
          /\ IF cfg_pc = "init"
             THEN /\ cfg_error' = st.error
                  /\ cfg_pc' = IF st.error = "none" THEN "defaults" ELSE "error"
                  /\ UNCHANGED <<written, lastResult>>
             ELSE /\ written' = Append(written, [op |-> "readConfig", key |-> <<>>])
                  /\ lastResult' = IF st.error = "none" THEN NoResult ELSE Raised(st.error)
                  /\ UNCHANGED <<cfg_pc, cfg_error>>
    /\ UNCHANGED <<fileExists, ConfigFile, mainVars>>

\* lines 121-124: applyDefaults, called by __init__ (line 61) or by a user of
\* the constructed object; self._ConfigContent["CSD_SOLVER"] raises KeyError
\* when the dict holds no CSD_SOLVER
ApplyDefaults ==
    /\ cfg_pc \in {"defaults", "ready"}
    /\ cfg_pc = "ready" => Len(written) < MaxWrites
    /\ ConfigContent' = IF DictHas(ConfigContent, K_CSD_SOLVER)
                        THEN applyDefaults(ConfigContent)
                        ELSE ConfigContent
    /\ IF cfg_pc = "defaults"
       THEN /\ cfg_error' = IF DictHas(ConfigContent, K_CSD_SOLVER) THEN "none"
                            ELSE "KeyError"
            /\ cfg_pc' = IF DictHas(ConfigContent, K_CSD_SOLVER) THEN "ready"
                         ELSE "error"
            /\ UNCHANGED <<written, lastResult>>
       ELSE /\ written' = Append(written, [op |-> "applyDefaults", key |-> <<>>])
            /\ lastResult' = IF DictHas(ConfigContent, K_CSD_SOLVER) THEN NoResult
                             ELSE Raised("KeyError")
            /\ UNCHANGED <<cfg_pc, cfg_error>>
    /\ UNCHANGED <<fileExists, ConfigFile, cfg_out, mainVars>>

\* lines 69-70: __getitem__
getitem(key) == IF DictHas(ConfigContent, key)
                THEN [kind |-> "value", value |-> DictGet(ConfigContent, key),
                      text |-> <<>>]
                ELSE Raised("KeyError")

GetItem(key) ==
    /\ cfg_pc = "ready"
    /\ lastResult' = getitem(key)
    /\ UNCHANGED <<fileExists, ConfigFile, ConfigContent, cfg_pc, cfg_error, cfg_out,
                   written, mainVars>>

\* lines 72-73: __setitem__
SetItem(key, value) ==
    /\ cfg_pc = "ready"
    /\ Len(written) < MaxWrites
    /\ ConfigContent' = DictSet(ConfigContent, key, value)
    /\ written' = Append(written, [op |-> "setitem", key |-> key])
    /\ lastResult' = NoResult
    /\ UNCHANGED <<fileExists, ConfigFile, cfg_pc, cfg_error, cfg_out, mainVars>>

\* lines 63-67: __str__
Str ==
    /\ cfg_pc = "ready"
    /\ \E dump \in {DumpOf(ConfigContent)} :
          lastResult' = IF dump.ok
                        THEN [kind |-> "str", value |-> IntVal(0), text |-> dump.text]
                        ELSE Raised("ValueError")
    /\ UNCHANGED <<fileExists, ConfigFile, ConfigContent, cfg_pc, cfg_error, cfg_out,
                   written, mainVars>>

\* ---- the files of the model ----
Line(key, value) == key \o <<" ","="," ">> \o value \o <<"\n">>

\* the lines a file is made of, in any order, up to MaxLines lines in all
CoreLines == { Line(K_CSD_SOLVER, IMPOSED),
               Line(K_CSD_SOLVER, <<"N","A","T","I","V","E">>),
               Line(K_AITKEN_PARAM, <<"0",".","5">>),
               Line(K_AITKEN_RELAX, <<"D","Y","N","A","M","I","C">>),
               Line(<<"F","O","O">>, <<"b","a","r">>) }

\* the lines of which a file may hold one, as its last line (the last line
\* of a file may lack the newline)
LastLines == {
    Line(K_NDIM, <<"2">>),
    Line(K_RESTART_ITER, <<"0">>),
    Line(K_TIME_TRESHOLD, <<"-","1">>),
    Line(K_NB_FSI_ITER, <<"+","1","_","0">>),
    Line(K_RBF_RADIUS, <<"0",".","5","0">>),
    Line(K_AITKEN_PARAM, <<"1",".","0">>),
    Line(K_AITKEN_PARAM, <<"5","e","-","1">>),
    Line(K_UNST_TIMESTEP, <<"1","E","-","5">>),
    Line(K_UNST_TIME, <<"1","2">>),
    Line(K_FSI_TOLERANCE, <<".","2","5">>),
    Line(K_CFD_CONFIG_FILE_NAME, <<"a",".","c","f","g">>),
    Line(K_CSD_SOLVER, <<"i","m","p","o","s","e","d">>),
    Line(K_CSD_CONFIG_FILE_NAME, <<"b",".","c","f","g">>),
    Line(K_RESTART_SOL, <<"N","O">>),
    Line(K_MATCHING_MESH, <<"Y","E","S">>),
    Line(K_MESH_INTERP_METHOD, <<"a","=","b">>),
    Line(K_DISP_PRED, <<>>),
    Line(K_AITKEN_RELAX, STATIC),
    Line(K_TIME_MARCHING, <<"Y","E","S">>),
    <<"\t"," ","N","D","I","M"," "," ","="," "," ","3"," ","\n">>,
    <<"N","D","I","M"," ","="," ","0",".","5","\n">>,
    <<"N","D","I","M"," ","=","\n">>,
    <<"U","N","S","T","_","T","I","M","E"," ","="," ","1",".","\n">>,
    <<"U","N","S","T","_","T","I","M","E"," ","="," ","n","a","n","\n">>,
    <<"U","N","S","T","_","T","I","M","E"," ","="," ","-","I","n","f","\n">>,
    <<"U","N","S","T","_","T","I","M","E"," ","="," ","-","0",".","0","\n">>,
    <<"U","N","S","T","_","T","I","M","E"," ","="," ","1","e","\n">>,
    <<"R","B","F","_","R","A","D","I","U","S"," ","="," ","1","2","0","e","-","1","\n">>,
    <<"C","S","D","_","S","O","L","V","E","R","="," "," ","I","M","P","O","S","E","D"," "," ","\n">>,
    <<"C","S","D","_","S","O","L","V","E","R"," ","="," ","I","M","P","O","S","E","D"," ","X","\n">>,
    <<"%"," ","N","D","I","M"," ","="," ","2","\n">>,
    <<" ","%"," ","N","D","I","M"," ","="," ","2","\n">>,
    <<"n","o"," ","o","p","t","i","o","n"," ","h","e","r","e","\n">>,
    <<"\n">>,
    <<"n","d","i","m"," ","="," ","2","\n">>,
    <<"="," ","5","\n">>,
    <<"N","D","I","M","=","0","7">>,
    <<"C","S","D","_","S","O","L","V","E","R"," ","="," ","I","M","P","O","S","E","D","","\n">>,
    <<"N","D","I","M"," ","="," ","5","","\n">>,
    <<"","N","D","I","M",""," ","="," ","3","\n">>,
    <<"N","D","I","M"," ","="," ","U+0663","\n">>,
    <<"N","D","I","M"," ","="," ","1","2","3","4","5","6","7","8","9","0","1","\n">>,
    <<"U","N","S","T","_","T","I","M","E"," ","="," ","0",".","3","0","0","0","0","0","0","0","0","0","0","0","0","0","0","0","4","\n">>,
    <<"U","N","S","T","_","T","I","M","E"," ","="," ","9","0","0","7","1","9","9","2","5","4","7","4","0","9","9","3","\n">>,
    <<"U","N","S","T","_","T","I","M","E"," ","="," ","1","e","-","4","0","0","\n">>,
    <<"U","N","S","T","_","T","I","M","E"," ","="," ","1","e","-","3","2","4","\n">>,
    <<"U","N","S","T","_","T","I","M","E"," ","="," ","1",".","8","e","3","0","8","\n">>,
    <<"U","N","S","T","_","T","I","M","E"," ","="," ","0",".","1","0","0","0","0","0","0","0","0","0","0","0","0","0","0","0","0","5","5","5","1","1","1","5","1","2","3","1","2","5","7","8","2","7","\n">>,
    <<"R","B","F","_","R","A","D","I","U","S"," ","="," ","U+0661",".","U+0665","\n">>,
    <<"%"," ","n","o"," ","n","e","w","l","i","n","e">> }

\* a line for the smallest float above 0 (3e-324 is nearer to 5e-324 than to
\* 0) and lines for exponents of more than MaxExpDigits digits: a file may
\* hold one after a line for CSD_SOLVER
DeepLines == {
    <<"U","N","S","T","_","T","I","M","E"," ","="," ","3","e","-","3","2","4","\n">>,
    <<"U","N","S","T","_","T","I","M","E"," ","="," ","1","e","1","0","0","0","0","0","0","0","0","0","\n">>,
    <<"U","N","S","T","_","T","I","M","E"," ","="," ","1","e","-","0","1","0","0","0","0","0","0","0","0","0","\n">> }

Ones(k) == [i \in 1..k |-> "1"]

\* lines for an int of as many digits as int() converts, and of one digit
\* more: a file may hold one after a line for CSD_SOLVER
LongLines == { Line(K_NDIM, Ones(MaxStrDigits)),
               Line(K_NDIM, Ones(MaxStrDigits + 1)) }

----------------------------------------------------------------------------
(***************************************************************************)
(* The specifications.                                                     *)
(***************************************************************************)

\* every sequence over S of length at most n
SeqsUpTo(S, n) == UNION { [1..k -> S] : k \in 0..n }

\* the keys and values the callers of the model read and write
ReadKeys    == {K_AITKEN_PARAM, <<"F","O","O">>}
WriteKeys   == {K_AITKEN_PARAM, <<"F","O","O">>}
WriteValues == {IntVal(3)}
\* the writes of the callers: a value under each key, and under one key an
\* int of one digit more than str() renders
Writes == { <<key, value>> : key \in WriteKeys, value \in WriteValues }
              \cup { <<K_AITKEN_PARAM, IntOf(FALSE, <<1>> \o [i \in 1..MaxStrDigits |-> 0])>> }

ConfigIdle ==
    /\ fileExists = FALSE
    /\ ConfigFile = <<>>
    /\ ConfigContent = <<>>
    /\ cfg_pc = "idle"
    /\ cfg_error = "none"
    /\ cfg_out = <<>>
    /\ written = <<>>
    /\ lastResult = NoResult

MainIdle ==
    /\ world = {}
    /\ with_MPI = FALSE
    /\ driverEnv = <<>>
    /\ main = <<>>
    /\ calls = <<>>
    /\ stdout = <<>>
    /\ arrived = {}

\* FSIConfig(FileName): the object before __init__ runs, for every file and
\* for the name of no file
InitConfig ==
    /\ \/ /\ fileExists = TRUE
          /\ \/ ConfigFile \in SeqsUpTo(CoreLines, MaxLines)
             \/ \E body \in SeqsUpTo(CoreLines, MaxLines - 1) :
                \E last \in LastLines : ConfigFile = Append(body, last)
             \/ \E last \in DeepLines \cup LongLines :
                ConfigFile = <<Line(K_CSD_SOLVER, <<"N","A","T","I","V","E">>), last>>
       \/ /\ fileExists = FALSE
          /\ ConfigFile = <<>>
    /\ ConfigContent = <<>>
    /\ cfg_pc = "init"
    /\ cfg_error = "none"
    /\ cfg_out = <<>>
    /\ written = <<>>
    /\ lastResult = NoResult
    /\ MainIdle

NextConfig ==
    \/ readConfig
    \/ ApplyDefaults
    \/ \E key \in ReadKeys : GetItem(key)
    \/ \E w \in Writes : SetItem(w[1], w[2])
    \/ Str

SpecConfig == InitConfig /\ [][NextConfig]_vars

\* main() started as the processes of `procs', with a driver that answers
\* one of `runs' in every process and one of `meshes' in each
InitMain(procs, runs, meshes) ==
    /\ world = procs
    /\ with_MPI \in BOOLEAN
    /\ \E run \in runs : \E mesh \in [procs -> meshes] :
          driverEnv = [p \in procs |-> DriverAnswers(run, mesh[p])]
    /\ main = [p \in procs |-> MainStart]
    /\ calls = [p \in procs |-> <<>>]
    /\ stdout = [p \in procs |-> <<>>]
    /\ arrived = {}
    /\ ConfigIdle

Next ==
    \/ \E p \in world : ImportMPI(p)
    \/ \E p \in world : ConstructDriver(p)
    \/ \E p \in world : ResolveMarker(p)
    \/ \E p \in world : GetControl(p)
    \/ \E p \in world : GetInitialCoord(p)
    \/ \E p \in world : BeginSolver(p)
    \/ \E p \in world : BarrierReturn(p)
    \/ \E p \in world : LoopTest(p)
    \/ \E p \in world : SetMeshDisplacement(p)
    \/ \E p \in world : Preprocess(p)
    \/ \E p \in world : Run(p)
    \/ \E p \in world : Postprocess(p)
    \/ \E p \in world : Update(p)
    \/ \E p \in world : Monitor(p)
    \/ \E p \in world : Output(p)
    \/ \E p \in world : Advance(p)
    \/ \E p \in world : Postprocessing(p)
    \/ \E p \in world : Release(p)

\* one process
Init ==
    InitMain({0},
             [ typeError  : BOOLEAN,
               deformTags : { {}, {"plate"}, {"farfield"} },
               deltaT     : 1..MaxDeltaT,
               timeIter0  : 0..MaxStartIter,
               nTimeIter  : 0..MaxIter ],
             [ markers : MarkerMaps, nVertex : 0..MaxVertex, nHalo : 0..1 ])

Spec == Init /\ [][Next]_vars

\* several processes, started together, with or without --parallel
InitMPI ==
    InitMain(0..(NProcs - 1),
             [ typeError  : BOOLEAN,
               deformTags : { {"plate"} },
               deltaT     : {1},
               timeIter0  : {0},
               nTimeIter  : 0..MaxIterMPI ],
             [ markers : {NoMarkers, PlateOnly}, nVertex : {MaxVertexMPI}, nHalo : {0} ])

SpecMPI == InitMPI /\ [][Next]_vars

----------------------------------------------------------------------------
(***************************************************************************)
(* Properties of main(), stated over the calls a process has issued.       *)
(***************************************************************************)

\* one process, which runs on whenever it can: a single thread of control
SpecLive == Init /\ [][Next]_vars /\ WF_vars(Next)

Max(a, b) == IF a >= b THEN a ELSE b

\* the positions of the calls of `op' in the calls of p
Places(p, op) == { i \in 1..Len(calls[p]) : calls[p][i].op = op }
Count(p, op)  == Cardinality(Places(p, op))

LoopOps == {"SetMeshDisplacement", "Preprocess", "Run", "Postprocess", "Update",
            "Monitor", "Output"}

\* p has left the time loop
LoopLeft(p) == main[p].pc \in {"finalize", "release", "done"}

\* p has finished main()
Finished(p) == main[p].pc \in {"done", "returned"}

\* the iteration in which Monitor signalled stop to p
StopIter(p) ==
    LET last == CHOOSE i \in Places(p, "Monitor") :
                    \A j \in Places(p, "Monitor") : j <= i
    IN  calls[p][last].args[1]

\* the step sequences p has executed in full: every call of the iteration
\* issued and the stop flag tested
FullSequences(p, n) ==
    /\ \A op \in LoopOps \ {"SetMeshDisplacement"} : Count(p, op) = n
    /\ Count(p, "SetMeshDisplacement") = n * main[p].nVertex_MovingMarker

\* C1 as stated: without a stop signal the loop is left after exactly
\* N = nTimeIter step sequences with TimeIter = N, whatever the start.
C1_Original ==
    \A p \in world :
        (LoopLeft(p) /\ ~main[p].stopCalc) =>
            /\ FullSequences(p, driverEnv[p].nTimeIter)
            /\ main[p].TimeIter = driverEnv[p].nTimeIter

\* C1, amended: without a stop signal the loop is left after exactly
\* max(0, N - T0) step sequences, T0 the starting iteration GetTime_Iter()
\* reports, and with TimeIter = max(N, T0).
C1_LoopLeftState ==
    \A p \in world :
        (LoopLeft(p) /\ ~main[p].stopCalc) =>
            /\ FullSequences(p, Max(0, driverEnv[p].nTimeIter - driverEnv[p].timeIter0))
            /\ main[p].TimeIter = Max(driverEnv[p].nTimeIter, driverEnv[p].timeIter0)

\* C1, amended: main() always comes to its end, and whenever the loop is
\* left without a stop signal, max(0, N - T0) step sequences were executed
\* and TimeIter = max(N, T0).
C1_Termination == ([]C1_LoopLeftState) /\ <>(\A p \in world : Finished(p))

\* C1: a run that starts at iteration 1 of 2 and ends without a stop signal
C1_Witness ==
    \E p \in world :
        /\ main[p].pc = "done" /\ ~main[p].stopCalc
        /\ driverEnv[p].timeIter0 = 1 /\ driverEnv[p].nTimeIter = 2
        /\ Count(p, "Output") = 1

\* what holds from the stop signal on, with `n' step sequences expected
AfterStop(p, n) ==
    LET k == StopIter(p) IN
    /\ \A op \in {"Preprocess", "Run", "Postprocess", "Update"} : Count(p, op) = n
    /\ main[p].TimeIter = k
    /\ main[p].time = k * main[p].deltaT
    /\ main[p].d_y = Displacement(main[p].time)
    /\ \A i \in 1..Len(calls[p]) :
          (\E m \in Places(p, "Monitor") : m < i /\ calls[p][m].args[1] = k)
              => calls[p][i].op \in {"Output", "Postprocessing"}

\* C2 as stated: a stop signal at iteration k leaves the loop after k+1
\* executions of Preprocess/Run/Postprocess/Update, with the counters not
\* advanced and no further step sequence.
C2_Original ==
    \A p \in world : main[p].stopCalc => AfterStop(p, StopIter(p) + 1)

\* C2, amended: a stop signal at iteration k leaves the loop after
\* k - T0 + 1 executions of Preprocess/Run/Postprocess/Update, T0 the
\* starting iteration (k+1 when the run starts at 0), with TimeIter still k,
\* time still that of iteration k, and no further step sequence.
C2_StopAtK ==
    \A p \in world :
        main[p].stopCalc => AfterStop(p, StopIter(p) - driverEnv[p].timeIter0 + 1)

\* C2: a run of two iterations started at iteration 1 that is stopped in
\* iteration 1 and has come to its end
C2_Witness ==
    \E p \in world :
        /\ main[p].pc = "done" /\ main[p].stopCalc
        /\ driverEnv[p].timeIter0 = 1 /\ driverEnv[p].nTimeIter = 2
        /\ StopIter(p) = 1
        /\ Count(p, "Preprocess") = 1

\* C3 as stated: Output is requested only for the iterations in which
\* Monitor did not signal stop.
C3_Original ==
    \A p \in world :
        main[p].stopCalc =>
            ~ \E i \in Places(p, "Output") : calls[p][i].args[1] = StopIter(p)

\* C3, amended: Output(TimeIter) is requested right after Monitor(TimeIter)
\* in every iteration, the stopping one included; the stop flag is tested
\* after the output request, and the loop is then left.
C3_OutputBeforeStopCheck ==
    \A p \in world :
        /\ \A i \in Places(p, "Monitor") :
              IF i = Len(calls[p])
              THEN main[p].pc = "output"
              ELSE calls[p][i + 1] = Call("Output", calls[p][i].args)
        /\ \A i \in Places(p, "Output") :
              i > 1 /\ calls[p][i - 1] = Call("Monitor", calls[p][i].args)
        /\ (main[p].stopCalc /\ LoopLeft(p)) =>
              \E i \in Places(p, "Output") :
                  /\ calls[p][i].args[1] = StopIter(p)
                  /\ \A j \in (i + 1)..Len(calls[p]) : calls[p][j].op = "Postprocessing"

\* C3: the stopping iteration has been output and the loop is left
C3_Witness ==
    \E p \in world :
        /\ main[p].pc = "finalize" /\ main[p].stopCalc
        /\ calls[p][Len(calls[p])] = Call("Output", <<StopIter(p)>>)
        /\ StopIter(p) = 0 /\ driverEnv[p].nTimeIter = 2

\* C7: once the driver is constructed, Postprocessing() is called exactly
\* once on every path out of the time loop, after every call of the loop,
\* and only the release of the driver follows it.
C7_PostprocessingOnce ==
    \A p \in world :
        /\ Count(p, "Postprocessing") <= 1
        /\ (main[p].pc \in {"release", "done"}) <=> (Count(p, "Postprocessing") = 1)
        /\ Count(p, "Postprocessing") = 1 =>
              /\ calls[p][Len(calls[p])].op = "Postprocessing"
              /\ main[p].SU2Driver = (IF main[p].pc = "done" THEN "deleted" ELSE "live")
        /\ main[p].pc = "finalize" => main[p].SU2Driver = "live"
        /\ main[p].SU2Driver = "deleted" => main[p].pc = "done"

\* C7: main() is over after a loop of no iteration, and after an early stop
C7_Witness ==
    \E p \in world :
        /\ main[p].pc = "done"
        /\ Count(p, "Postprocessing") = 1
        /\ \/ Count(p, "Preprocess") = 0 /\ driverEnv[p].nTimeIter = 0
           \/ main[p].stopCalc /\ main[p].TimeIter < main[p].nTimeIter

\* C8: when the construction of the driver raises TypeError, the message
\* for the --parallel flag is printed (flag set: serial build; flag not set:
\* parallel build) and main() returns: no driver call, no barrier.
C8_TypeErrorReturns ==
    \A p \in world :
        /\ driverEnv[p].typeError =>
              /\ main[p].pc \in {"mpi", "construct", "returned"}
              /\ calls[p] = <<>>
              /\ p \notin arrived
              /\ main[p].SU2Driver = "unset"
        /\ main[p].pc = "returned" =>
              /\ driverEnv[p].typeError
              /\ stdout[p] = <<MsgTypeError,
                               IF with_MPI THEN MsgSerialBuild ELSE MsgParallelBuild>>
        /\ main[p].pc \notin {"mpi", "construct", "returned"} => ~driverEnv[p].typeError

\* C8: main() has returned from the handler, with --parallel
C8_Witness ==
    \E p \in world :
        /\ main[p].pc = "returned" /\ with_MPI
        /\ stdout[p][2] = MsgSerialBuild

\* the marker main() moves on p: "plate", when it is a deform-mesh marker
\* and a boundary marker of the rank
PlateMoves(p) == /\ "plate" \in driverEnv[p].deformTags
                 /\ "plate" \in DOMAIN driverEnv[p].markers
VerticesMoved(p) == IF PlateMoves(p) THEN driverEnv[p].nVertex ELSE 0

\* C9: in every iteration SetMeshDisplacement(marker, i, 0, d_y, 0) is
\* issued once for each vertex i = 0..nVertex-1 of the moving marker (none
\* when "plate" is not resolved), then Preprocess(TimeIter), Run,
\* Postprocess, Update, Monitor(TimeIter) in this order, with
\* d_y = 0.0175*sin(2*pi*TimeIter*deltaT).
C9_CallOrder ==
    \A p \in world :
        LET c  == calls[p]
            nV == VerticesMoved(p)
        IN
        /\ \A i \in Places(p, "Preprocess") :
              LET t == c[i].args[1] IN
              /\ i > nV
              /\ \A j \in 0..(nV - 1) :
                    c[i - nV + j] =
                        Call("SetMeshDisplacement",
                             <<driverEnv[p].markers["plate"], j, 0,
                               Displacement(t * driverEnv[p].deltaT), 0>>)
              /\ i - nV > 1 => c[i - nV - 1].op # "SetMeshDisplacement"
              /\ i + 1 <= Len(c) => c[i + 1] = Call("Run", <<>>)
              /\ i + 2 <= Len(c) => c[i + 2] = Call("Postprocess", <<>>)
              /\ i + 3 <= Len(c) => c[i + 3] = Call("Update", <<>>)
              /\ i + 4 <= Len(c) => c[i + 4] = Call("Monitor", <<t>>)
        /\ \A i \in Places(p, "Run")         : i > 1 /\ c[i - 1].op = "Preprocess"
        /\ \A i \in Places(p, "Postprocess") : i > 1 /\ c[i - 1].op = "Run"
        /\ \A i \in Places(p, "Update")      : i > 1 /\ c[i - 1].op = "Postprocess"
        /\ \A i \in Places(p, "Monitor")     : i > 1 /\ c[i - 1].op = "Update"
        /\ Count(p, "SetMeshDisplacement") =
              nV * Count(p, "Preprocess")
              + (IF main[p].pc = "displace" THEN main[p].iVertex ELSE 0)
        /\ main[p].pc = "displace" => main[p].iVertex <= nV

\* C9: two iterations over a marker of two vertices have reached Monitor
C9_Witness ==
    \E p \in world :
        /\ PlateMoves(p) /\ driverEnv[p].nVertex = 2
        /\ driverEnv[p].markers["plate"] = 1
        /\ Count(p, "Monitor") = 2
        /\ Count(p, "SetMeshDisplacement") = 4

\* p has issued a call of its time loop
InLoop(p) == \E i \in 1..Len(calls[p]) : calls[p][i].op \in LoopOps

\* q has finished its setup and reached the barrier
SetupDone(q) ==
    /\ main[q].pc \notin {"mpi", "construct", "markers", "control", "coords", "returned"}
    /\ Count(q, "GetnTimeIter") = 1
    /\ Count(q, "GetInitialMeshCoord") = VerticesMoved(q)

\* C10 as stated: among several processes, no process issues the first call
\* of its time loop before every process has finished its setup.
C10_Original ==
    \A p \in world : InLoop(p) => \A q \in world : SetupDone(q)

\* C10, amended: among several processes started with --parallel, no
\* process issues the first call of its time loop before every process has
\* finished its setup and entered the barrier.
C10_BarrierBeforeLoop ==
    with_MPI => \A p \in world : InLoop(p) => \A q \in world : SetupDone(q) /\ q \in arrived

\* C10: with --parallel, one process is in its loop and another has just
\* left the barrier
C10_Witness ==
    /\ with_MPI
    /\ Cardinality(world) >= 2
    /\ \E p, q \in world :
          /\ p # q
          /\ Count(p, "Preprocess") = 1
          /\ main[q].pc = "while" /\ ~InLoop(q)

----------------------------------------------------------------------------
(***************************************************************************)
(* Properties of FSIConfig, stated against the text of the file.           *)
(***************************************************************************)

\* the vocabulary of the configuration file, by kind of value
IntegerOptions == {<<"N","D","I","M">>, <<"R","E","S","T","A","R","T","_","I","T","E","R">>, <<"T","I","M","E","_","T","R","E","S","H","O","L","D">>, <<"N","B","_","F","S","I","_","I","T","E","R">>}
FloatOptions   == {<<"R","B","F","_","R","A","D","I","U","S">>, <<"A","I","T","K","E","N","_","P","A","R","A","M">>, <<"U","N","S","T","_","T","I","M","E","S","T","E","P">>, <<"U","N","S","T","_","T","I","M","E">>,
                   <<"F","S","I","_","T","O","L","E","R","A","N","C","E">>}
StringOptions  == {<<"C","F","D","_","C","O","N","F","I","G","_","F","I","L","E","_","N","A","M","E">>, <<"C","S","D","_","S","O","L","V","E","R">>, <<"C","S","D","_","C","O","N","F","I","G","_","F","I","L","E","_","N","A","M","E">>,
                   <<"R","E","S","T","A","R","T","_","S","O","L">>, <<"M","A","T","C","H","I","N","G","_","M","E","S","H">>, <<"M","E","S","H","_","I","N","T","E","R","P","_","M","E","T","H","O","D">>,
                   <<"D","I","S","P","_","P","R","E","D">>, <<"A","I","T","K","E","N","_","R","E","L","A","X">>, <<"T","I","M","E","_","M","A","R","C","H","I","N","G">>}
Recognized     == IntegerOptions \cup FloatOptions \cup StringOptions

\* What Python 3 makes of each line of the files above, written down from
\* runs of FSIConfig.readConfig on a file of the line alone: the load skips
\* the line, stores value under key (the int, the float by the digits of
\* its repr(), or the string), reports the text out, or raises ValueError.
\* The properties below compare the model with these lines, not with its
\* own conversions.
FileLines == {
    [line |-> <<"C","S","D","_","S","O","L","V","E","R"," ","="," ","I","M","P","O","S","E","D","\n">>,
     does |-> "stores", key |-> <<"C","S","D","_","S","O","L","V","E","R">>, value |-> StrVal(<<"I","M","P","O","S","E","D">>), out |-> <<>>],
    [line |-> <<"C","S","D","_","S","O","L","V","E","R"," ","="," ","N","A","T","I","V","E","\n">>,
     does |-> "stores", key |-> <<"C","S","D","_","S","O","L","V","E","R">>, value |-> StrVal(<<"N","A","T","I","V","E">>), out |-> <<>>],
    [line |-> <<"A","I","T","K","E","N","_","P","A","R","A","M"," ","="," ","0",".","5","\n">>,
     does |-> "stores", key |-> <<"A","I","T","K","E","N","_","P","A","R","A","M">>, value |-> FloatOf(FALSE, <<5>>, -1), out |-> <<>>],
    [line |-> <<"A","I","T","K","E","N","_","R","E","L","A","X"," ","="," ","D","Y","N","A","M","I","C","\n">>,
     does |-> "stores", key |-> <<"A","I","T","K","E","N","_","R","E","L","A","X">>, value |-> StrVal(<<"D","Y","N","A","M","I","C">>), out |-> <<>>],
    [line |-> <<"F","O","O"," ","="," ","b","a","r","\n">>,
     does |-> "reports", key |-> <<>>, value |-> StrVal(<<>>), out |-> <<"F","O","O"," ","i","s"," ","a","n"," ","i","n","v","a","l","i","d"," ","o","p","t","i","o","n"," ","!">>],
    [line |-> <<"N","D","I","M"," ","="," ","2","\n">>,
     does |-> "stores", key |-> <<"N","D","I","M">>, value |-> IntOf(FALSE, <<2>>), out |-> <<>>],
    [line |-> <<"R","E","S","T","A","R","T","_","I","T","E","R"," ","="," ","0","\n">>,
     does |-> "stores", key |-> <<"R","E","S","T","A","R","T","_","I","T","E","R">>, value |-> IntOf(FALSE, <<>>), out |-> <<>>],
    [line |-> <<"T","I","M","E","_","T","R","E","S","H","O","L","D"," ","="," ","-","1","\n">>,
     does |-> "stores", key |-> <<"T","I","M","E","_","T","R","E","S","H","O","L","D">>, value |-> IntOf(TRUE, <<1>>), out |-> <<>>],
    [line |-> <<"N","B","_","F","S","I","_","I","T","E","R"," ","="," ","+","1","_","0","\n">>,
     does |-> "stores", key |-> <<"N","B","_","F","S","I","_","I","T","E","R">>, value |-> IntOf(FALSE, <<1,0>>), out |-> <<>>],
    [line |-> <<"R","B","F","_","R","A","D","I","U","S"," ","="," ","0",".","5","0","\n">>,
     does |-> "stores", key |-> <<"R","B","F","_","R","A","D","I","U","S">>, value |-> FloatOf(FALSE, <<5>>, -1), out |-> <<>>],
    [line |-> <<"A","I","T","K","E","N","_","P","A","R","A","M"," ","="," ","1",".","0","\n">>,
     does |-> "stores", key |-> <<"A","I","T","K","E","N","_","P","A","R","A","M">>, value |-> FloatOf(FALSE, <<1>>, 0), out |-> <<>>],
    [line |-> <<"A","I","T","K","E","N","_","P","A","R","A","M"," ","="," ","5","e","-","1","\n">>,
     does |-> "stores", key |-> <<"A","I","T","K","E","N","_","P","A","R","A","M">>, value |-> FloatOf(FALSE, <<5>>, -1), out |-> <<>>],
    [line |-> <<"U","N","S","T","_","T","I","M","E","S","T","E","P"," ","="," ","1","E","-","5","\n">>,
     does |-> "stores", key |-> <<"U","N","S","T","_","T","I","M","E","S","T","E","P">>, value |-> FloatOf(FALSE, <<1>>, -5), out |-> <<>>],
    [line |-> <<"U","N","S","T","_","T","I","M","E"," ","="," ","1","2","\n">>,
     does |-> "stores", key |-> <<"U","N","S","T","_","T","I","M","E">>, value |-> FloatOf(FALSE, <<1,2>>, 0), out |-> <<>>],
    [line |-> <<"F","S","I","_","T","O","L","E","R","A","N","C","E"," ","="," ",".","2","5","\n">>,
     does |-> "stores", key |-> <<"F","S","I","_","T","O","L","E","R","A","N","C","E">>, value |-> FloatOf(FALSE, <<2,5>>, -2), out |-> <<>>],
    [line |-> <<"C","F","D","_","C","O","N","F","I","G","_","F","I","L","E","_","N","A","M","E"," ","="," ","a",".","c","f","g","\n">>,
     does |-> "stores", key |-> <<"C","F","D","_","C","O","N","F","I","G","_","F","I","L","E","_","N","A","M","E">>, value |-> StrVal(<<"a",".","c","f","g">>), out |-> <<>>],
    [line |-> <<"C","S","D","_","S","O","L","V","E","R"," ","="," ","i","m","p","o","s","e","d","\n">>,
     does |-> "stores", key |-> <<"C","S","D","_","S","O","L","V","E","R">>, value |-> StrVal(<<"i","m","p","o","s","e","d">>), out |-> <<>>],
    [line |-> <<"C","S","D","_","C","O","N","F","I","G","_","F","I","L","E","_","N","A","M","E"," ","="," ","b",".","c","f","g","\n">>,
     does |-> "stores", key |-> <<"C","S","D","_","C","O","N","F","I","G","_","F","I","L","E","_","N","A","M","E">>, value |-> StrVal(<<"b",".","c","f","g">>), out |-> <<>>],
    [line |-> <<"R","E","S","T","A","R","T","_","S","O","L"," ","="," ","N","O","\n">>,
     does |-> "stores", key |-> <<"R","E","S","T","A","R","T","_","S","O","L">>, value |-> StrVal(<<"N","O">>), out |-> <<>>],
    [line |-> <<"M","A","T","C","H","I","N","G","_","M","E","S","H"," ","="," ","Y","E","S","\n">>,
     does |-> "stores", key |-> <<"M","A","T","C","H","I","N","G","_","M","E","S","H">>, value |-> StrVal(<<"Y","E","S">>), out |-> <<>>],
    [line |-> <<"M","E","S","H","_","I","N","T","E","R","P","_","M","E","T","H","O","D"," ","="," ","a","=","b","\n">>,
     does |-> "stores", key |-> <<"M","E","S","H","_","I","N","T","E","R","P","_","M","E","T","H","O","D">>, value |-> StrVal(<<"a","=","b">>), out |-> <<>>],
    [line |-> <<"D","I","S","P","_","P","R","E","D"," ","="," ","\n">>,
     does |-> "stores", key |-> <<"D","I","S","P","_","P","R","E","D">>, value |-> StrVal(<<>>), out |-> <<>>],
    [line |-> <<"A","I","T","K","E","N","_","R","E","L","A","X"," ","="," ","S","T","A","T","I","C","\n">>,
     does |-> "stores", key |-> <<"A","I","T","K","E","N","_","R","E","L","A","X">>, value |-> StrVal(<<"S","T","A","T","I","C">>), out |-> <<>>],
    [line |-> <<"T","I","M","E","_","M","A","R","C","H","I","N","G"," ","="," ","Y","E","S","\n">>,
     does |-> "stores", key |-> <<"T","I","M","E","_","M","A","R","C","H","I","N","G">>, value |-> StrVal(<<"Y","E","S">>), out |-> <<>>],
    [line |-> <<"\t"," ","N","D","I","M"," "," ","="," "," ","3"," ","\n">>,
     does |-> "stores", key |-> <<"N","D","I","M">>, value |-> IntOf(FALSE, <<3>>), out |-> <<>>],
    [line |-> <<"N","D","I","M"," ","="," ","0",".","5","\n">>,
     does |-> "raises", key |-> <<>>, value |-> StrVal(<<>>), out |-> <<>>],
    [line |-> <<"N","D","I","M"," ","=","\n">>,
     does |-> "raises", key |-> <<>>, value |-> StrVal(<<>>), out |-> <<>>],
    [line |-> <<"U","N","S","T","_","T","I","M","E"," ","="," ","1",".","\n">>,
     does |-> "stores", key |-> <<"U","N","S","T","_","T","I","M","E">>, value |-> FloatOf(FALSE, <<1>>, 0), out |-> <<>>],
    [line |-> <<"U","N","S","T","_","T","I","M","E"," ","="," ","n","a","n","\n">>,
     does |-> "stores", key |-> <<"U","N","S","T","_","T","I","M","E">>, value |-> FloatSpecial(<<"n","a","n">>), out |-> <<>>],
    [line |-> <<"U","N","S","T","_","T","I","M","E"," ","="," ","-","I","n","f","\n">>,
     does |-> "stores", key |-> <<"U","N","S","T","_","T","I","M","E">>, value |-> FloatSpecial(<<"-","i","n","f">>), out |-> <<>>],
    [line |-> <<"U","N","S","T","_","T","I","M","E"," ","="," ","-","0",".","0","\n">>,
     does |-> "stores", key |-> <<"U","N","S","T","_","T","I","M","E">>, value |-> FloatSpecial(<<"-","0">>), out |-> <<>>],
    [line |-> <<"U","N","S","T","_","T","I","M","E"," ","="," ","1","e","\n">>,
     does |-> "raises", key |-> <<>>, value |-> StrVal(<<>>), out |-> <<>>],
    [line |-> <<"R","B","F","_","R","A","D","I","U","S"," ","="," ","1","2","0","e","-","1","\n">>,
     does |-> "stores", key |-> <<"R","B","F","_","R","A","D","I","U","S">>, value |-> FloatOf(FALSE, <<1,2>>, 0), out |-> <<>>],
    [line |-> <<"C","S","D","_","S","O","L","V","E","R","="," "," ","I","M","P","O","S","E","D"," "," ","\n">>,
     does |-> "stores", key |-> <<"C","S","D","_","S","O","L","V","E","R">>, value |-> StrVal(<<"I","M","P","O","S","E","D">>), out |-> <<>>],
    [line |-> <<"C","S","D","_","S","O","L","V","E","R"," ","="," ","I","M","P","O","S","E","D"," ","X","\n">>,
     does |-> "stores", key |-> <<"C","S","D","_","S","O","L","V","E","R">>, value |-> StrVal(<<"I","M","P","O","S","E","D"," ","X">>), out |-> <<>>],
    [line |-> <<"%"," ","N","D","I","M"," ","="," ","2","\n">>,
     does |-> "skips", key |-> <<>>, value |-> StrVal(<<>>), out |-> <<>>],
    [line |-> <<" ","%"," ","N","D","I","M"," ","="," ","2","\n">>,
     does |-> "reports", key |-> <<>>, value |-> StrVal(<<>>), out |-> <<"%"," ","N","D","I","M"," ","i","s"," ","a","n"," ","i","n","v","a","l","i","d"," ","o","p","t","i","o","n"," ","!">>],
    [line |-> <<"n","o"," ","o","p","t","i","o","n"," ","h","e","r","e","\n">>,
     does |-> "skips", key |-> <<>>, value |-> StrVal(<<>>), out |-> <<>>],
    [line |-> <<"\n">>,
     does |-> "skips", key |-> <<>>, value |-> StrVal(<<>>), out |-> <<>>],
    [line |-> <<"n","d","i","m"," ","="," ","2","\n">>,
     does |-> "reports", key |-> <<>>, value |-> StrVal(<<>>), out |-> <<"n","d","i","m"," ","i","s"," ","a","n"," ","i","n","v","a","l","i","d"," ","o","p","t","i","o","n"," ","!">>],
    [line |-> <<"="," ","5","\n">>,
     does |-> "reports", key |-> <<>>, value |-> StrVal(<<>>), out |-> <<" ","i","s"," ","a","n"," ","i","n","v","a","l","i","d"," ","o","p","t","i","o","n"," ","!">>],
    [line |-> <<"N","D","I","M","=","0","7">>,
     does |-> "stores", key |-> <<"N","D","I","M">>, value |-> IntOf(FALSE, <<7>>), out |-> <<>>],
    [line |-> <<"C","S","D","_","S","O","L","V","E","R"," ","="," ","I","M","P","O","S","E","D","","\n">>,
     does |-> "stores", key |-> <<"C","S","D","_","S","O","L","V","E","R">>, value |-> StrVal(<<"I","M","P","O","S","E","D">>), out |-> <<>>],
    [line |-> <<"N","D","I","M"," ","="," ","5","","\n">>,
     does |-> "stores", key |-> <<"N","D","I","M">>, value |-> IntOf(FALSE, <<5>>), out |-> <<>>],
    [line |-> <<"","N","D","I","M",""," ","="," ","3","\n">>,
     does |-> "stores", key |-> <<"N","D","I","M">>, value |-> IntOf(FALSE, <<3>>), out |-> <<>>],
    [line |-> <<"N","D","I","M"," ","="," ","U+0663","\n">>,
     does |-> "stores", key |-> <<"N","D","I","M">>, value |-> IntOf(FALSE, <<3>>), out |-> <<>>],
    [line |-> <<"N","D","I","M"," ","="," ","1","2","3","4","5","6","7","8","9","0","1","\n">>,
     does |-> "stores", key |-> <<"N","D","I","M">>, value |-> IntOf(FALSE, <<1,2,3,4,5,6,7,8,9,0,1>>), out |-> <<>>],
    [line |-> <<"U","N","S","T","_","T","I","M","E"," ","="," ","0",".","3","0","0","0","0","0","0","0","0","0","0","0","0","0","0","0","4","\n">>,
     does |-> "stores", key |-> <<"U","N","S","T","_","T","I","M","E">>, value |-> FloatOf(FALSE, <<3,0,0,0,0,0,0,0,0,0,0,0,0,0,0,0,4>>, -17), out |-> <<>>],
    [line |-> <<"U","N","S","T","_","T","I","M","E"," ","="," ","9","0","0","7","1","9","9","2","5","4","7","4","0","9","9","3","\n">>,
     does |-> "stores", key |-> <<"U","N","S","T","_","T","I","M","E">>, value |-> FloatOf(FALSE, <<9,0,0,7,1,9,9,2,5,4,7,4,0,9,9,2>>, 0), out |-> <<>>],
    [line |-> <<"U","N","S","T","_","T","I","M","E"," ","="," ","1","e","-","4","0","0","\n">>,
     does |-> "stores", key |-> <<"U","N","S","T","_","T","I","M","E">>, value |-> FloatOf(FALSE, <<>>, 0), out |-> <<>>],
    [line |-> <<"U","N","S","T","_","T","I","M","E"," ","="," ","1","e","-","3","2","4","\n">>,
     does |-> "stores", key |-> <<"U","N","S","T","_","T","I","M","E">>, value |-> FloatOf(FALSE, <<>>, 0), out |-> <<>>],
    [line |-> <<"U","N","S","T","_","T","I","M","E"," ","="," ","1",".","8","e","3","0","8","\n">>,
     does |-> "stores", key |-> <<"U","N","S","T","_","T","I","M","E">>, value |-> FloatSpecial(<<"i","n","f">>), out |-> <<>>],
    [line |-> <<"U","N","S","T","_","T","I","M","E"," ","="," ","0",".","1","0","0","0","0","0","0","0","0","0","0","0","0","0","0","0","0","5","5","5","1","1","1","5","1","2","3","1","2","5","7","8","2","7","\n">>,
     does |-> "stores", key |-> <<"U","N","S","T","_","T","I","M","E">>, value |-> FloatOf(FALSE, <<1>>, -1), out |-> <<>>],
    [line |-> <<"R","B","F","_","R","A","D","I","U","S"," ","="," ","U+0661",".","U+0665","\n">>,
     does |-> "stores", key |-> <<"R","B","F","_","R","A","D","I","U","S">>, value |-> FloatOf(FALSE, <<1,5>>, -1), out |-> <<>>],
    [line |-> <<"%"," ","n","o"," ","n","e","w","l","i","n","e">>,
     does |-> "skips", key |-> <<>>, value |-> StrVal(<<>>), out |-> <<>>],
    [line |-> <<"U","N","S","T","_","T","I","M","E"," ","="," ","3","e","-","3","2","4","\n">>,
     does |-> "stores", key |-> <<"U","N","S","T","_","T","I","M","E">>, value |-> FloatOf(FALSE, <<5>>, -324), out |-> <<>>],
    [line |-> <<"U","N","S","T","_","T","I","M","E"," ","="," ","1","e","1","0","0","0","0","0","0","0","0","0","\n">>,
     does |-> "stores", key |-> <<"U","N","S","T","_","T","I","M","E">>, value |-> FloatSpecial(<<"i","n","f">>), out |-> <<>>],
    [line |-> <<"U","N","S","T","_","T","I","M","E"," ","="," ","1","e","-","0","1","0","0","0","0","0","0","0","0","0","\n">>,
     does |-> "stores", key |-> <<"U","N","S","T","_","T","I","M","E">>, value |-> FloatOf(FALSE, <<>>, 0), out |-> <<>>],
    [line |-> Line(K_NDIM, Ones(MaxStrDigits)),
     does |-> "stores", key |-> <<"N","D","I","M">>, value |-> IntOf(FALSE, [i \in 1..MaxStrDigits |-> 1]), out |-> <<>>],
    [line |-> Line(K_NDIM, Ones(MaxStrDigits + 1)),
     does |-> "raises", key |-> <<>>, value |-> StrVal(<<>>), out |-> <<>>] }

Meaning(line) == CHOOSE m \in FileLines : m.line = line

\* the file has a line with a key outside the vocabulary, a line with a
\* malformed number, a line that gives the key
HasUnknown(file) == \E i \in 1..Len(file) : Meaning(file[i]).does = "reports"
Malformed(file)  == \E i \in 1..Len(file) : Meaning(file[i]).does = "raises"
GivesAt(file, key, i) == Meaning(file[i]).does = "stores" /\ Meaning(file[i]).key = key
Gives(file, key) == \E i \in 1..Len(file) : GivesAt(file, key, i)
GivenKeys(file)  == { Meaning(file[i]).key :
                         i \in {j \in 1..Len(file) : Meaning(file[j]).does = "stores"} }

\* the value of the last line of the file that gives the key
LastGiven(file, key) ==
    LET i == CHOOSE k \in 1..Len(file) :
                 GivesAt(file, key, k) /\ \A j \in (k + 1)..Len(file) : ~GivesAt(file, key, j)
    IN  Meaning(file[i]).value

\* the type of the values of a key
TypeOf(key) == IF key \in IntegerOptions THEN "int"
               ELSE IF key \in FloatOptions THEN "float" ELSE "str"

\* __init__ has returned or raised and no call has followed; it has returned
Constructed == cfg_pc \in {"ready", "error"} /\ written = <<>>
Loaded      == cfg_pc = "ready" /\ written = <<>>

\* what __getitem__ returns for a value
Returns(v) == [kind |-> "value", value |-> v, text |-> <<>>]
KeyError   == [kind |-> "KeyError", value |-> IntVal(0), text |-> <<>>]

\* the indexed writes among the calls, and the runs of readConfig
Stored(key) == \E i \in 1..Len(written) : written[i] = [op |-> "setitem", key |-> key]
Loads       == 1 + Cardinality({i \in 1..Len(written) : written[i].op = "readConfig"})

\* C4 as stated: for every file made only of recognized keys (their numbers
\* well formed), every key of the file can be read back once __init__ has
\* ended, as the typed conversion of a text the file gives for it.
C4_Original ==
    (fileExists /\ Constructed /\ ~HasUnknown(ConfigFile) /\ ~Malformed(ConfigFile)) =>
        \A key \in GivenKeys(ConfigFile) :
            /\ cfg_pc = "ready"
            /\ \E i \in 1..Len(ConfigFile) :
                  /\ GivesAt(ConfigFile, key, i)
                  /\ getitem(key) = Returns(Meaning(ConfigFile[i]).value)

\* the keys applyDefaults overwrites
Forced(file) ==
    IF LastGiven(file, <<"C","S","D","_","S","O","L","V","E","R">>) = StrVal(<<"I","M","P","O","S","E","D">>)
    THEN {<<"A","I","T","K","E","N","_","R","E","L","A","X">>, <<"A","I","T","K","E","N","_","P","A","R","A","M">>}
    ELSE {}

\* C4, amended: for every file made only of recognized keys, construction
\* raises ValueError when a number of the file is malformed, else KeyError
\* when the file gives no CSD_SOLVER, and else returns; then every key of the
\* file reads back as a value of the type of the key, the typed conversion of
\* the text of its last line in the file, except AITKEN_RELAX and
\* AITKEN_PARAM when CSD_SOLVER is "IMPOSED", which read back as "STATIC" and
\* 1.0.
C4_RoundTrip ==
    (fileExists /\ Constructed /\ ~HasUnknown(ConfigFile)) =>
        IF Malformed(ConfigFile)
        THEN cfg_pc = "error" /\ cfg_error = "ValueError"
        ELSE IF ~Gives(ConfigFile, <<"C","S","D","_","S","O","L","V","E","R">>)
        THEN cfg_pc = "error" /\ cfg_error = "KeyError"
        ELSE /\ cfg_pc = "ready" /\ cfg_error = "none"
             /\ \A key \in GivenKeys(ConfigFile) :
                   getitem(key).kind = "value" /\ getitem(key).value.type = TypeOf(key)
             /\ \A key \in GivenKeys(ConfigFile) \ Forced(ConfigFile) :
                   getitem(key) = Returns(LastGiven(ConfigFile, key))
             /\ Forced(ConfigFile) # {} =>
                   /\ getitem(<<"A","I","T","K","E","N","_","R","E","L","A","X">>) = Returns(StrVal(<<"S","T","A","T","I","C">>))
                   /\ getitem(<<"A","I","T","K","E","N","_","P","A","R","A","M">>) = Returns(FloatVal(1, 0))

\* C4: the file gives AITKEN_PARAM = 5e-1 after CSD_SOLVER = NATIVE, and
\* AITKEN_PARAM has been read back as 0.5
C4_Witness ==
    /\ Loaded
    /\ ConfigFile = <<Line(K_CSD_SOLVER, <<"N","A","T","I","V","E">>), Line(K_AITKEN_PARAM, <<"5","e","-","1">>)>>
    /\ lastResult = Returns(FloatVal(5, -1))
    /\ getitem(<<"C","S","D","_","S","O","L","V","E","R">>) = Returns(StrVal(<<"N","A","T","I","V","E">>))

\* C5: after construction, a loaded CSD_SOLVER of "IMPOSED" gives
\* AITKEN_RELAX "STATIC" and AITKEN_PARAM 1.0, whatever the file gives for
\* the two keys and wherever; any other CSD_SOLVER leaves the two keys as the
\* file gives them, absent when the file does not give them.
C5_ImposedDefaults ==
    Loaded =>
        IF getitem(<<"C","S","D","_","S","O","L","V","E","R">>) = Returns(StrVal(<<"I","M","P","O","S","E","D">>))
        THEN /\ getitem(<<"A","I","T","K","E","N","_","R","E","L","A","X">>) = Returns(StrVal(<<"S","T","A","T","I","C">>))
             /\ getitem(<<"A","I","T","K","E","N","_","P","A","R","A","M">>) = Returns(FloatVal(1, 0))
        ELSE \A key \in {<<"A","I","T","K","E","N","_","R","E","L","A","X">>, <<"A","I","T","K","E","N","_","P","A","R","A","M">>} :
                 getitem(key) = IF Gives(ConfigFile, key)
                                THEN Returns(LastGiven(ConfigFile, key))
                                ELSE KeyError

\* C5: the file gives AITKEN_PARAM = 0.5 after CSD_SOLVER = IMPOSED, and
\* AITKEN_PARAM has been read back as 1.0
C5_Witness ==
    /\ Loaded
    /\ ConfigFile = <<Line(K_CSD_SOLVER, IMPOSED), Line(K_AITKEN_PARAM, <<"0",".","5">>)>>
    /\ lastResult = Returns(FloatVal(1, 0))

\* C6 as stated: in every state of a constructed object every key of the
\* mapping is one of the 18 recognized names.
C6_Original ==
    cfg_pc = "ready" => DictKeys(ConfigContent) \subseteq Recognized

\* what a run of readConfig prints: the reports of the lines up to the first
\* malformed number
RECURSIVE Reported(_)
Reported(file) ==
    IF file = <<>> \/ Meaning(Head(file)).does = "raises" THEN <<>>
    ELSE (IF Meaning(Head(file)).does = "reports" THEN <<Meaning(Head(file)).out>> ELSE <<>>)
         \o Reported(Tail(file))

RECURSIVE Times(_, _)
Times(s, n) == IF n = 0 THEN <<>> ELSE s \o Times(s, n - 1)

\* C6, amended: every key of the mapping is one of the 18 recognized names
\* or was stored through an indexed write, which stores any key; a key of
\* the file outside the vocabulary is reported, at every run of the load, is
\* not stored by the load and does not stop it: the keys of the other lines
\* are stored, and the construction raises or returns as it does without the
\* line.
C6_KeysRecognized ==
    /\ \A key \in DictKeys(ConfigContent) : key \in Recognized \/ Stored(key)
    /\ (fileExists /\ cfg_pc # "init") =>
          /\ cfg_out = Times(Reported(ConfigFile), Loads)
          /\ cfg_error = "ValueError" <=> Malformed(ConfigFile)
          /\ cfg_pc # "defaults" =>
                (cfg_pc = "error" <=>
                    (Malformed(ConfigFile) \/ ~Gives(ConfigFile, <<"C","S","D","_","S","O","L","V","E","R">>)))
          /\ ~Malformed(ConfigFile) => GivenKeys(ConfigFile) \subseteq DictKeys(ConfigContent)

\* C6: the load of a file with the line FOO = bar has reported FOO and
\* stored the CSD_SOLVER of the next line, an indexed write has stored FOO,
\* and the read of FOO has returned what was written
C6_Witness ==
    /\ cfg_pc = "ready"
    /\ ConfigFile = <<Line(<<"F","O","O">>, <<"b","a","r">>), Line(K_CSD_SOLVER, <<"N","A","T","I","V","E">>)>>
    /\ cfg_out = <<<<"F","O","O"," ","i","s"," ","a","n"," ","i","n","v","a","l","i","d"," ","o","p","t","i","o","n"," ","!">>>>
    /\ written = <<[op |-> "setitem", key |-> <<"F","O","O">>]>>
    /\ DictKeys(ConfigContent) = {<<"C","S","D","_","S","O","L","V","E","R">>, <<"F","O","O">>}
    /\ lastResult = Returns(IntVal(3))

====
